---- MODULE Spec2Model ----
(***************************************************************************)
(* State-machine model of the frame transformation pipeline of            *)
(* v2up-video-upscaler-pro:                                                *)
(*   - SpatialUpscaler (src/src/processors/spatial_upscaler.py)            *)
(*   - RealESRGANModel.upscale_image (src/src/models/realesrgan_model.py)  *)
(*   - TemporalInterpolator (src/src/processors/temporal_interpolator.py)  *)
(*   - RIFEModel / SimpleFrameInterpolator (src/src/models/rife_model.py)  *)
(*   - VideoProcessor / VideoWriter (src/src/utils/video_processor.py)     *)
(*   - SystemManager / get_system_manager                                  *)
(*     (src/src/utils/system_manager.py)                                   *)
(*   - download_model (src/src/utils/model_downloader.py)                  *)
(*                                                                         *)
(* Spec is the frame pipeline: one call of upscale_video, upscale_preview, *)
(* interpolate_video, interpolate_preview or interpolate_sequence, on      *)
(* short inputs of every scale and resolution.                             *)
(* StreamSpec is the same pipeline on long inputs, past the cadences and   *)
(* rolling windows of the frame loops.                                     *)
(* SysSpec is the hardware profile: threads calling get_system_manager and *)
(* the methods of the SystemManager they obtain.                           *)
(* WriterSpec is a VideoWriter on its own, with the files it names.        *)
(* DownloadSpec is download_model, with the model directory.               *)
(*                                                                         *)
(* Numbers.  The scale factor is a Python float; it is carried here as an  *)
(* integer number of hundredths (scale_factor = 250 is 2.5).  int(x) of a  *)
(* non-negative float is floor, so int(d * s) is (d * scale_factor) \div   *)
(* 100.  For every scale and dimension the model draws, the IEEE double    *)
(* results of the comparisons and truncations of the source agree with     *)
(* the exact results computed here.                                        *)
(***************************************************************************)
EXTENDS Integers, Sequences, FiniteSets, TLC

VARIABLES
    entry,              \* which public entry point this run exercises
    pc,                 \* position of the run
    scale_factor,       \* SpatialUpscaler.scale_factor, in hundredths
    device,             \* SpatialUpscaler.device / TemporalInterpolator.device
    use_ai,             \* SpatialUpscaler.use_ai
    ai_model_scale,     \* SpatialUpscaler.ai_model_scale (0: attribute never set)
    model,              \* self.model: "None" or the class of the loaded model
    metadata,           \* VideoProcessor metadata of the input
    output_width,       \* upscale_video local
    output_height,      \* upscale_video local
    total_frames,       \* upscale_video local
    frame_idx,          \* next source index the loop reads
    processed_count,    \* frames (upscale) or pairs (interpolation) processed
    sink,               \* VideoWriter: [open, w, h, fps]
    written,            \* frames handed to VideoWriter.write_frame, in order
    lastOut,            \* what _upscale_frame did with the last frame
    enhancer,           \* bookkeeping of the enhancement capability's calls
    callbacks,          \* progress_callback invocations: <<current, total>>
    reclaims,           \* model.clear_cache() invocations
    result,             \* the record the entry point returned
    model_name,         \* TemporalInterpolator.model_name
    fps_multiplier,     \* interpolate_video argument
    target_fps_arg,     \* interpolate_video argument: <<>> is None, <<x>> is x
    target_fps,         \* interpolate_video local
    actual_multiplier,  \* interpolate_video local
    frames,             \* interpolate_video local: number of frames extracted
    output_frame_count_actual,  \* interpolate_video local
    copied,             \* shutil.copy(input_path, output_path) happened
    seq_in,             \* interpolate_sequence argument: number of frames
    seq_out,            \* interpolate_sequence return value
    call,               \* the public method the caller invokes
    start_frame,        \* upscale_video argument
    end_frame,          \* upscale_video argument / local: <<>> is None
    duration,           \* preview argument, in hundredths of a second
    segment,            \* interpolate_preview: the temporary segment file
    hardware,           \* what torch.cuda reports: [has_cuda, vram]
    system_manager,     \* the module global _system_manager: 0 is None
    detections,         \* number of times _detect_device has run
    instances,          \* the SystemManager objects, by identity
    dicts,              \* the settings dictionaries, by identity
    threads,            \* per thread: position in get_system_manager,
                        \* object it was returned, calls made
    last_call,          \* the latest SystemManager method call and its result
    clock,              \* how long the frames of this run take: the profile
                        \* time.time() follows
    frame_times,        \* upscale_video / interpolate_video local
    eta,                \* upscale_video / interpolate_video local: the
                        \* fraction num / den, in milliseconds
    writer,             \* a VideoWriter object on its own
    files,              \* the files the VideoWriter's paths name
    download,           \* a call of download_model
    model_dir           \* the files of get_model_dir()

vars == <<entry, pc, scale_factor, device, use_ai, ai_model_scale, model,
          metadata, output_width, output_height, total_frames, frame_idx,
          processed_count, sink, written, lastOut, enhancer, callbacks,
          reclaims, result, model_name, fps_multiplier, target_fps_arg,
          target_fps, actual_multiplier, frames, output_frame_count_actual,
          copied, seq_in, seq_out, call, start_frame, end_frame, duration,
          segment, hardware, system_manager, detections, instances, dicts,
          threads, last_call, clock, frame_times, eta, writer, files,
          download, model_dir>>

upscalerVars == <<scale_factor, use_ai, ai_model_scale>>
interpVars == <<model_name, fps_multiplier, target_fps_arg, target_fps,
                actual_multiplier, frames, output_frame_count_actual, copied>>
seqVars == <<seq_in, seq_out>>
argVars == <<call, start_frame, duration, clock>>
sysVars == <<hardware, system_manager, detections, instances, dicts, threads,
            last_call>>
timeVars == <<frame_times, eta>>
ioVars == <<writer, files, download, model_dir>>
mainVars == <<entry, pc, scale_factor, device, use_ai, ai_model_scale, model,
              metadata, output_width, output_height, total_frames, frame_idx,
              processed_count, sink, written, lastOut, enhancer, callbacks,
              reclaims, result, model_name, fps_multiplier, target_fps_arg,
              target_fps, actual_multiplier, frames,
              output_frame_count_actual, copied, seq_in, seq_out, call,
              start_frame, end_frame, duration, segment, clock, frame_times,
              eta>>

-----------------------------------------------------------------------------
(* Bounds of the model *)

\* largest frame count of an input video
MaxFrames == 3

(* Program constants *)

\* scale_factor > 16.0 is rejected
MaxScale == 1600
\* self.use_ai = self.scale_factor >= 1.5
AiThreshold == 150
\* _load_model: scale_factor >= 3.0 selects the 4x model
FourXThreshold == 300
\* the tolerance 0.01 of the remainder tests, in hundredths
Tolerance == 1
\* progress callback cadence of upscale_video
UpscaleProgressEvery == 10
\* cache reclaim cadence of upscale_video
ReclaimEvery == 50
\* target_fps > 240 is capped
MaxFps == 240
\* progress callback cadence of interpolate_video
InterpProgressEvery == 5

\* max_megapixels = 33.2 with output_megapixels = w*h / (1024*1024):
\* the check rejects w*h > 33.2 * 1048576 = 34812723.2, that is w*h > 34812723
MaxOutputPixels == 34812723

-----------------------------------------------------------------------------
(* Inputs *)

\* scale factors, in hundredths; -100, 0 and 2000 are the invalid ones of
\* test_flexible_scaling.py
Scales == {-100, 0, 5, 50, 66, 75, 100, 120, 150, 200, 250, 300, 397, 400,
           401, 800, 900, 1200, 1600, 2000}

\* (width, height) of the input videos
Resolutions == {<<1, 1>>, <<3, 2>>, <<10, 7>>, <<640, 480>>, <<824, 1464>>,
                <<1464, 824>>, <<1080, 1920>>, <<1920, 1080>>, <<2160, 3840>>,
                <<7680, 4320>>, <<7680, 4321>>, <<7680, 4533>>}

Devices == {"cuda", "cpu"}

\* no record returned yet
NoResult == [success |-> FALSE, error |-> "", output_path |-> "None",
             frames_processed |-> 0, new_fps |-> 0, fps_multiplier |-> 0,
             output_frame_count |-> 0]

NoSink == [open |-> FALSE, w |-> 0, h |-> 0, fps |-> 0]

NoEnhancer == [calls |-> 0, thrown |-> 0, substituted |-> 0]

-----------------------------------------------------------------------------
(* Pure helpers *)

RECURSIVE Pow(_, _)
Pow(b, e) == IF e = 0 THEN 1 ELSE b * Pow(b, e - 1)

Abs(x) == IF x < 0 THEN -x ELSE x

\* variant of ScaleDim: round(d * s) in place of int(d * s)
ScaleDimRounded(d, s100) == (d * s100 + 50) \div 100

\* int(d * s) for the float s = s100 / 100 and d * s >= 0
ScaleDim(d, s100) == (d * s100) \div 100

\* a * b > limit for naturals a, b, without forming the product
ProductExceeds(a, b, limit) == b >= 1 /\ a > limit \div b

-----------------------------------------------------------------------------
(* Frames.  A frame in flight is its dimensions plus the record of the      *)
(* steps _upscale_frame applied to it.  A step is                           *)
(*   [op |-> "ApplyEnhancer", num |-> ratio, den |-> 1, w, h]   or          *)
(*   [op |-> "Resize", num, den, w, h]  with nominal ratio num/den          *)
(* where w, h are the dimensions after the step.                            *)

Frame(w, h) == [steps |-> <<>>, w |-> w, h |-> h, error |-> "",
                substituted |-> FALSE, calls |-> 0, thrown |-> 0]

\* Outcomes of one call of the enhancement capability (upsampler.enhance):
\*   "ok"       enhance returns the enhanced image
\*   "fallback" enhance throws, the cv2.resize of the except branch succeeds
\*   "raise"    enhance throws and the cv2.resize of the except branch throws
EnhanceOutcomes == {"ok", "fallback", "raise"}

\* the largest number of enhancer passes _upscale_frame makes: int(16.0 / 4)
MaxPasses == 4

\* what the capability does in each of the passes of one frame
OutcomeProfiles == [1..MaxPasses -> EnhanceOutcomes]

\* cv2.resize(frame, (tw, th)): OpenCV rejects an empty destination size
cv2_resize(fr, tw, th, num, den) ==
    IF fr.error # "" THEN fr
    ELSE IF tw < 1 \/ th < 1
    THEN [fr EXCEPT !.error = "cv2.error"]
    ELSE [fr EXCEPT !.steps = Append(@, [op |-> "Resize", num |-> num,
                                         den |-> den, w |-> tw, h |-> th]),
                    !.w = tw, !.h = th]

\* variant of upscale_image: no except branch, the enhancer's exception leaves
\* the method
upscale_image_reraises(fr, scale, outcome) ==
    IF fr.error # "" THEN fr
    ELSE IF outcome # "ok"
    THEN [fr EXCEPT !.error = "EnhancerError", !.calls = @ + 1, !.thrown = @ + 1]
    ELSE [fr EXCEPT !.steps = Append(@, [op |-> "ApplyEnhancer", num |-> scale,
                                         den |-> 1, w |-> fr.w * scale,
                                         h |-> fr.h * scale]),
                    !.w = fr.w * scale, !.h = fr.h * scale,
                    !.calls = @ + 1]

\* RealESRGANModel.upscale_image(image) with outscale None: the enhancer
\* output is scale x the input; when enhance throws, the except branch
\* returns cv2.resize(image, (int(w * scale), int(h * scale))) instead.
upscale_image(fr, scale, outcome) ==
    IF fr.error # "" THEN fr
    ELSE IF outcome = "raise"
    THEN [fr EXCEPT !.error = "cv2.error", !.calls = @ + 1, !.thrown = @ + 1]
    ELSE [fr EXCEPT !.steps = Append(@, [op |-> "ApplyEnhancer", num |-> scale,
                                         den |-> 1, w |-> fr.w * scale,
                                         h |-> fr.h * scale]),
                    !.w = fr.w * scale, !.h = fr.h * scale,
                    !.calls = @ + 1,
                    !.thrown = IF outcome = "fallback" THEN @ + 1 ELSE @,
                    !.substituted = @ \/ outcome = "fallback"]

\* for _ in range(times): frame = self.model.upscale_image(frame)
RECURSIVE EnhanceTimes(_, _, _, _, _)
EnhanceTimes(fr, k, times, scale, outs) ==
    IF k > times THEN fr
    ELSE EnhanceTimes(upscale_image(fr, scale, outs[k]), k + 1, times, scale, outs)

\* times = int(self.scale_factor / 4)
LargeScaleTimes(s100) == s100 \div 400

\* variant of NotExact: the tolerance taken as 1.0 instead of 0.01
NotExactUnscaled(num, den) == Abs(num - den) > Tolerance * den

\* abs(ratio - 1.0) > 0.01 for the ratio num / den (den > 0)
NotExact(num, den) == 100 * Abs(num - den) > Tolerance * den

\* SpatialUpscaler._upscale_frame(frame) for self.scale_factor = s100 and
\* self.ai_model_scale = ai, the model's scale
upscale_frame(w, h, s100, ai, outs) ==
    LET fr == Frame(w, h)
        target_h == ScaleDim(h, s100)
        target_w == ScaleDim(w, s100)
    IN  IF s100 < 100 THEN cv2_resize(fr, target_w, target_h, s100, 100)
        ELSE IF s100 < AiThreshold THEN cv2_resize(fr, target_w, target_h, s100, 100)
        ELSE IF s100 = 200 THEN upscale_image(fr, ai, outs[1])
        ELSE IF s100 = 400 THEN upscale_image(fr, ai, outs[1])
        ELSE IF s100 >= 800
        THEN LET times == LargeScaleTimes(s100)
                 up == EnhanceTimes(fr, 1, times, ai, outs)
                 den == 100 * Pow(4, times)
             IN  IF up.error = "" /\ NotExact(s100, den)
                 THEN cv2_resize(up, (up.w * s100) \div den,
                                 (up.h * s100) \div den, s100, den)
                 ELSE up
        ELSE LET up == upscale_image(fr, ai, outs[1])
                 final_h == ScaleDim(h, s100)
                 final_w == ScaleDim(w, s100)
             IN  IF up.error = "" /\ NotExact(s100, 100 * ai)
                 THEN cv2_resize(up, final_w, final_h, s100, 100 * ai)
                 ELSE up

\* variant of NativeRatio: the 4x model whatever the target scale
NativeRatioAlwaysFour(s100) == 4

\* _load_model: the native ratio of the model chosen for the target scale
NativeRatio(s100) == IF s100 >= FourXThreshold THEN 4 ELSE 2

\* the enhancer passes and the Resize steps of a processed frame
EnhancerSteps(fr) == {i \in 1..Len(fr.steps) : fr.steps[i].op = "ApplyEnhancer"}
ResizeSteps(fr) == {i \in 1..Len(fr.steps) : fr.steps[i].op = "Resize"}

\* product of the nominal ratios of the steps, as <<numerator, denominator>>
RECURSIVE RatioProduct(_, _)
RatioProduct(steps, i) ==
    IF i > Len(steps) THEN <<1, 1>>
    ELSE LET rest == RatioProduct(steps, i + 1)
         IN  <<steps[i].num * rest[1], steps[i].den * rest[2]>>


-----------------------------------------------------------------------------
(* Timing.  frame_time = time.time() - frame_start is a float number of     *)
(* seconds; it is carried here as a whole number of milliseconds, and a     *)
(* quotient of two numbers as the fraction [num, den].  A run's clock is    *)
(* one of a few profiles: the latency of the k-th frame (or pair) of the    *)
(* run as a function of k.                                                  *)

\* the latency profiles
Clocks == {"steady", "slowing", "burst"}

\* frame_time of the k-th processed frame under a profile, in milliseconds:
\*   "steady"   every frame takes 40 ms
\*   "slowing"  the k-th frame takes 10 * k ms
\*   "burst"    the first 3 frames take 90 ms, the later ones 10 ms
Latency(profile, k) ==
    IF profile = "steady" THEN 40
    ELSE IF profile = "slowing" THEN 10 * k
    ELSE IF k <= 3 THEN 90 ELSE 10

\* eta before the first frame is processed: the local is not bound yet
NoEta == [num |-> 0, den |-> 1]

\* sum(times)
RECURSIVE Sum(_)
Sum(times) == IF times = <<>> THEN 0 ELSE Head(times) + Sum(Tail(times))

\* times[-n:]
LastOf(times, n) ==
    IF Len(times) <= n THEN times
    ELSE SubSeq(times, Len(times) - n + 1, Len(times))

\* the rolling window of upscale_video: frame_times[-30:]
UpscaleWindow == 30
\* the rolling window of interpolate_video: frame_times[-10:]
InterpWindow == 10

\* variant of RollingEta: the mean of all the latencies of the run
RunningEta(remaining, times, window) ==
    [num |-> remaining * Sum(times), den |-> Len(times)]

\* avg_time = sum(frame_times[-w:]) / min(len(frame_times), w);
\* eta = remaining_frames * avg_time        (len(frame_times) > 0)
RollingEta(remaining, times, window) ==
    [num |-> remaining * Sum(LastOf(times, window)),
     den |-> IF Len(times) < window THEN Len(times) ELSE window]

-----------------------------------------------------------------------------
(* SpatialUpscaler *)

\* variant of Failure: the output path is left in the record
FailureWithPath(err) == [success |-> FALSE, error |-> err,
                         output_path |-> "output_path", frames_processed |-> 0,
                         new_fps |-> 0, fps_multiplier |-> 0,
                         output_frame_count |-> 0]

\* the except branch of a public entry point: the failure record
Failure(err) == [success |-> FALSE, error |-> err, output_path |-> "None",
                 frames_processed |-> 0, new_fps |-> 0, fps_multiplier |-> 0,
                 output_frame_count |-> 0]

\* variant of ValidScale: the range of the message, 0.1 to 16.0
ValidScaleFromTenth(s100) == ~(s100 < 10 \/ s100 > MaxScale)

\* if self.scale_factor <= 0 or self.scale_factor > 16.0: raise ValueError
ValidScale(s100) == ~(s100 <= 0 \/ s100 > MaxScale)

\* SpatialUpscaler.__init__: validates the scale, then loads the model when
\* scale_factor >= 1.5; create_realesrgan_model can raise (package missing,
\* weights not downloadable), and _load_model re-raises.
Construct ==
    /\ entry = "upscale" /\ pc = "new"
    /\ IF ~ValidScale(scale_factor)
       THEN /\ pc' = "ctor_raised"
            /\ result' = [NoResult EXCEPT !.error = "ValueError"]
            /\ UNCHANGED <<use_ai, ai_model_scale, model>>
       ELSE /\ use_ai' = (scale_factor >= AiThreshold)
            /\ IF use_ai'
               THEN /\ ai_model_scale' = NativeRatio(scale_factor)
                    /\ \E loaded \in BOOLEAN :
                          IF loaded
                          THEN /\ model' = "RealESRGANModel"
                               /\ pc' = "idle"
                               /\ result' = result
                          ELSE /\ model' = "None"
                               /\ pc' = "ctor_raised"
                               /\ result' = [NoResult EXCEPT !.error = "LoadError"]
               ELSE /\ ai_model_scale' = 0
                    /\ model' = "None"
                    /\ pc' = "idle"
                    /\ result' = result
    /\ UNCHANGED <<entry, argVars, sysVars, ioVars, timeVars, end_frame, segment,
                   scale_factor, device, metadata, output_width,
                   output_height, total_frames, frame_idx, processed_count,
                   sink, written, lastOut, enhancer, callbacks, reclaims,
                   interpVars, seqVars>>

\* upscale_video, lines 124-130: VideoProcessor(input_path) raises when the
\* file is missing or cannot be opened
UV_Open ==
    /\ entry = "upscale"
    /\ pc = (IF call = "upscale_preview" THEN "calling" ELSE "idle")
    /\ \E opened \in BOOLEAN :
          IF opened
          THEN pc' = "validating" /\ result' = result
          ELSE pc' = "failed" /\ result' = Failure("CannotOpenInput")
    /\ UNCHANGED <<entry, argVars, sysVars, ioVars, timeVars, end_frame, segment,
                   upscalerVars, device, model, metadata, output_width,
                   output_height, total_frames, frame_idx, processed_count,
                   sink, written, lastOut, enhancer, callbacks, reclaims,
                   interpVars, seqVars>>

\* variant of ExceedsCeiling: the width and the height capped separately
ExceedsCeilingPerDimension(w, h) == w > 7680 \/ h > 4320

\* variant of ExceedsCeiling: no check
ExceedsCeilingNever(w, h) == FALSE

\* output_megapixels > max_megapixels
ExceedsCeiling(w, h) == ProductExceeds(w, h, MaxOutputPixels)

\* the part of the ValueError message of line 144 that names the resolution
ExceedsLimitMessage(w, h) ==
    "Output resolution (" \o ToString(w) \o "x" \o ToString(h)
        \o ") exceeds 8K limit"

\* upscale_video, lines 132-165: output resolution, resolution ceiling, frame
\* range, VRAM estimate on cuda (self.model is None below 1.5x)
UV_Validate ==
    /\ entry = "upscale" /\ pc = "validating"
    /\ output_width' = ScaleDim(metadata.width, scale_factor)
    /\ output_height' = ScaleDim(metadata.height, scale_factor)
    /\ IF ExceedsCeiling(output_width', output_height')
       THEN /\ pc' = "failed"
            /\ result' = Failure(ExceedsLimitMessage(output_width', output_height'))
            /\ UNCHANGED <<total_frames, end_frame>>
       ELSE /\ end_frame' = (IF end_frame = <<>>
                             THEN <<metadata.frame_count>> ELSE end_frame)
            /\ total_frames' = end_frame'[1] - start_frame
            /\ IF device = "cuda" /\ model = "None"
               THEN pc' = "failed" /\ result' = Failure("AttributeError")
               ELSE pc' = "opening_sink" /\ result' = result
    /\ UNCHANGED <<entry, argVars, sysVars, ioVars, timeVars, segment,
                   upscalerVars, device, model, metadata, frame_idx,
                   processed_count, sink, written, lastOut, enhancer,
                   callbacks, reclaims, interpVars, seqVars>>

\* upscale_video, lines 167-177: VideoWriter(...) raises ValueError when the
\* cv2 writer does not open
UV_OpenSink ==
    /\ entry = "upscale" /\ pc = "opening_sink"
    /\ \E opened \in BOOLEAN :
          IF opened
          THEN /\ sink' = [open |-> TRUE, w |-> output_width,
                           h |-> output_height, fps |-> metadata.fps]
               /\ pc' = "streaming"
               /\ result' = result
          ELSE /\ sink' = sink
               /\ pc' = "failed"
               /\ result' = Failure("CannotCreateWriter")
    /\ frame_idx' = start_frame
    /\ processed_count' = 0
    /\ frame_times' = <<>>
    /\ eta' = NoEta
    /\ UNCHANGED <<entry, argVars, sysVars, ioVars, end_frame, segment,
                   upscalerVars, device, model, metadata, output_width,
                   output_height, total_frames, written, lastOut, enhancer,
                   callbacks, reclaims, interpVars, seqVars>>

\* VideoWriter.write_frame: the sink resizes a frame whose size is not its own
SinkResizes(fr) == fr.w # sink.w \/ fr.h # sink.h

\* the enhancer bookkeeping after a frame
Tally(fr) == [calls |-> enhancer.calls + fr.calls,
              thrown |-> enhancer.thrown + fr.thrown,
              substituted |-> enhancer.substituted + (IF fr.substituted THEN 1 ELSE 0)]

\* VideoWriter.__exit__ while an exception err leaves the with block: close()
\* runs, and an exception of close() (os.remove or shutil.move in
\* _copy_audio) is the one that reaches the except branch
ExitSink(err, close_ok) == IF close_ok THEN err ELSE "OSError"

\* variant of Upscaled: the frame is filed under the index after its own
UpscaledShifted(idx, fr) == [src |-> idx + 1, j |-> 0, m |-> 1,
                             resized |-> fr.w # sink.w \/ fr.h # sink.h]

\* the frame writer.write_frame receives for source frame idx
Upscaled(idx, fr) == [src |-> idx, j |-> 0, m |-> 1, resized |-> SinkResizes(fr)]

\* the passes of the enhancer _upscale_frame makes for a scale; the passes
\* it does not make have no outcome
UsedPasses(s100) ==
    IF s100 < AiThreshold THEN 0
    ELSE IF s100 >= 800 THEN LargeScaleTimes(s100)
    ELSE 1

\* variant of ReportsProgress: the callback after every frame
ReportsProgressAlways(count) == TRUE

\* line 201: processed_count % 10 == 0 (a callback is supplied)
ReportsProgress(count) == count % UpscaleProgressEvery = 0

\* variant of ReclaimsCache: the cadence of the progress callback
ReclaimsCacheWithProgress(count) == count % UpscaleProgressEvery = 0

\* line 209: processed_count % 50 == 0
ReclaimsCache(count) == count % ReclaimEvery = 0

\* variant of UpscaleEta: the mean of all the latencies so far
UpscaleEtaRunning(remaining, times) == RunningEta(remaining, times, UpscaleWindow)

\* lines 193-196: the ETA of upscale_video
UpscaleEta(remaining, times) == RollingEta(remaining, times, UpscaleWindow)

\* upscale_video, lines 179-210: one iteration of the frame loop; the frame
\* is read (extract_frames yields frame_idx while cap.read() succeeds, and
\* no read succeeds past the last frame of the file), upscaled and written
UV_Frame ==
    /\ entry = "upscale" /\ pc = "streaming"
    /\ frame_idx < end_frame[1]
    /\ frame_idx < metadata.frame_count
    /\ \E outs \in OutcomeProfiles, callback_ok \in BOOLEAN,
          close_ok \in BOOLEAN :
          LET fr == upscale_frame(metadata.width, metadata.height,
                                  scale_factor, ai_model_scale, outs)
              count == processed_count + 1
              calls_back == ReportsProgress(count)
              reclaim == ReclaimsCache(count)
          IN  /\ \A k \in 1..MaxPasses :
                    k > UsedPasses(scale_factor) => outs[k] = "ok"
              /\ lastOut' = fr
              /\ enhancer' = Tally(fr)
              /\ IF fr.error # ""
                 THEN /\ pc' = "failed"
                      /\ result' = Failure(ExitSink(fr.error, close_ok))
                      /\ sink' = [sink EXCEPT !.open = FALSE]
                      /\ UNCHANGED <<written, processed_count, frame_idx,
                                     callbacks, reclaims, timeVars>>
                 ELSE /\ written' = Append(written, Upscaled(frame_idx, fr))
                      /\ processed_count' = count
                      /\ frame_idx' = frame_idx + 1
                      /\ frame_times' = Append(frame_times, Latency(clock, count))
                      /\ eta' = UpscaleEta(total_frames - count, frame_times')
                      /\ callbacks' = IF calls_back
                                      THEN Append(callbacks, <<count, total_frames>>)
                                      ELSE callbacks
                      /\ IF calls_back /\ ~callback_ok
                         THEN /\ pc' = "failed"
                              /\ result' = Failure(ExitSink("CallbackError", close_ok))
                              /\ sink' = [sink EXCEPT !.open = FALSE]
                              /\ reclaims' = reclaims
                         ELSE IF reclaim /\ model = "None"
                         THEN /\ pc' = "failed"
                              /\ result' = Failure(ExitSink("AttributeError", close_ok))
                              /\ sink' = [sink EXCEPT !.open = FALSE]
                              /\ reclaims' = reclaims
                         ELSE /\ close_ok
                              /\ pc' = pc
                              /\ result' = result
                              /\ sink' = sink
                              /\ reclaims' = IF reclaim THEN reclaims + 1 ELSE reclaims
    /\ UNCHANGED <<entry, argVars, sysVars, ioVars, end_frame, segment,
                   upscalerVars, device, model, metadata, output_width,
                   output_height, total_frames, interpVars, seqVars>>

\* extract_frames, lines 127-130: the range is exhausted, or cap.read()
\* fails and the generator stops early
UV_EndOfFrames ==
    /\ entry = "upscale" /\ pc = "streaming"
    /\ pc' = "finalizing"
    /\ UNCHANGED <<entry, argVars, sysVars, ioVars, timeVars, end_frame, segment,
                   upscalerVars, device, model, metadata, output_width,
                   output_height, total_frames, frame_idx, processed_count,
                   sink, written, lastOut, enhancer, callbacks, reclaims,
                   result, interpVars, seqVars>>

\* upscale_video, lines 212-229: the with block ends and the sink is closed
\* (close() can raise), the metrics are computed (total_time / total_frames
\* in the log line) and the record returned
UV_Finish ==
    /\ entry = "upscale" /\ pc = "finalizing"
    /\ sink' = [sink EXCEPT !.open = FALSE]
    /\ \E close_ok \in BOOLEAN :
          IF ~close_ok
          THEN pc' = "failed" /\ result' = Failure("OSError")
          ELSE IF total_frames = 0
          THEN pc' = "failed" /\ result' = Failure("ZeroDivisionError")
          ELSE /\ pc' = "completed"
               /\ result' = [success |-> TRUE, error |-> "",
                             output_path |-> "output_path",
                             frames_processed |-> processed_count,
                             new_fps |-> 0, fps_multiplier |-> 0,
                             output_frame_count |-> 0]
    /\ UNCHANGED <<entry, argVars, sysVars, ioVars, timeVars, end_frame, segment,
                   upscalerVars, device, model, metadata, output_width,
                   output_height, total_frames, frame_idx, processed_count,
                   written, lastOut, enhancer, callbacks, reclaims,
                   interpVars, seqVars>>

\* the frame range of upscale_preview: min(int(fps * duration), frame_count)
PreviewEndFrame(fps, d100, frame_count) ==
    LET n == (fps * d100) \div 100
    IN  IF n < frame_count THEN n ELSE frame_count

\* upscale_preview, lines 326-342: the input is opened for its metadata, the
\* frame range computed, and upscale_video called on it; its record is the
\* preview's record
UP_Preview ==
    /\ entry = "upscale" /\ call = "upscale_preview" /\ pc = "idle"
    /\ \E opened \in BOOLEAN :
          IF opened
          THEN /\ end_frame' = <<PreviewEndFrame(metadata.fps, duration,
                                                 metadata.frame_count)>>
               /\ pc' = "calling"
               /\ result' = result
          ELSE /\ end_frame' = end_frame
               /\ pc' = "failed"
               /\ result' = Failure("CannotOpenInput")
    /\ UNCHANGED <<entry, argVars, sysVars, ioVars, timeVars, segment,
                   upscalerVars, device, model, metadata, output_width,
                   output_height, total_frames, frame_idx, processed_count,
                   sink, written, lastOut, enhancer, callbacks, reclaims,
                   interpVars, seqVars>>

-----------------------------------------------------------------------------
(* Frame interpolation: RIFEModel and SimpleFrameInterpolator *)

\* a source frame, and a frame synthesized between source frames src and
\* src + 1 at timestep j / m
Original(i) == [src |-> i, j |-> 0, m |-> 1, resized |-> FALSE]
Interpolated(i, j, m) == [src |-> i, j |-> j, m |-> m, resized |-> FALSE]

\* the list of the first n decoded frames
FrameList(n) == [i \in 1..n |-> Original(i - 1)]

\* variant of simple_interpolation: range(num_intermediates + 1)
simple_interpolation_one_more(i, num_intermediates) ==
    [k \in 1..(num_intermediates + 1) |-> Interpolated(i, k, num_intermediates + 1)]

\* RIFEModel._simple_interpolation with timestep None:
\* timesteps = [(i + 1) / (num_intermediates + 1) for i in range(num_intermediates)]
simple_interpolation(i, num_intermediates) ==
    [k \in 1..num_intermediates |-> Interpolated(i, k, num_intermediates + 1)]

\* RIFEModel.interpolate_frames: both branches end in _simple_interpolation
rife_interpolate_frames(i, num_intermediates) ==
    simple_interpolation(i, num_intermediates)

\* the methods a model object offers
HasInterpolateFrames(kind) == kind = "RIFEModel"

\* RIFEModel.interpolate_sequence(frames, multiplier), frames = FrameList(n),
\* n >= 1
RECURSIVE rife_sequence_from(_, _, _)
rife_sequence_from(i, n, multiplier) ==
    IF i >= n - 1 THEN <<Original(n - 1)>>
    ELSE <<Original(i)>> \o rife_interpolate_frames(i, multiplier - 1)
           \o rife_sequence_from(i + 1, n, multiplier)

rife_interpolate_sequence(n, multiplier) ==
    IF multiplier = 1 THEN FrameList(n)
    ELSE rife_sequence_from(0, n, multiplier)

\* SimpleFrameInterpolator.interpolate_sequence: for j in range(1, multiplier)
\* the blend at alpha = j / multiplier
simple_blends(i, multiplier) ==
    [j \in 1..(multiplier - 1) |-> Interpolated(i, j, multiplier)]

RECURSIVE simple_sequence_from(_, _, _)
simple_sequence_from(i, n, multiplier) ==
    IF i >= n - 1 THEN <<Original(n - 1)>>
    ELSE <<Original(i)>> \o simple_blends(i, multiplier)
           \o simple_sequence_from(i + 1, n, multiplier)

simple_interpolate_sequence(n, multiplier) ==
    IF multiplier = 1 THEN FrameList(n)
    ELSE simple_sequence_from(0, n, multiplier)

\* interpolate_sequence on a list of seq_in frames; frames[-1] of an empty
\* list raises IndexError, and the optical-flow calls of RIFEModel can raise
SeqExpand ==
    /\ entry = "sequence" /\ pc = "new"
    /\ \E flow_ok \in BOOLEAN :
          IF seq_in = 0 /\ fps_multiplier # 1
          THEN pc' = "raised" /\ seq_out' = seq_out
          ELSE IF ~flow_ok /\ model = "RIFEModel" /\ fps_multiplier # 1
                  /\ seq_in >= 2
          THEN pc' = "raised" /\ seq_out' = seq_out
          ELSE /\ pc' = "returned"
               /\ seq_out' = IF model = "RIFEModel"
                             THEN rife_interpolate_sequence(seq_in, fps_multiplier)
                             ELSE simple_interpolate_sequence(seq_in, fps_multiplier)
    /\ UNCHANGED <<entry, argVars, sysVars, ioVars, timeVars, end_frame, segment,
                   upscalerVars, device, model, metadata, output_width,
                   output_height, total_frames, frame_idx, processed_count,
                   sink, written, lastOut, enhancer, callbacks, reclaims,
                   result, interpVars, seq_in>>

-----------------------------------------------------------------------------
(* TemporalInterpolator *)

\* TemporalInterpolator._load_model: 'rife' loads RIFEModel, 'simple' the
\* SimpleFrameInterpolator; an unknown name or a failed load falls back to
\* SimpleFrameInterpolator
IConstruct ==
    /\ entry = "interp" /\ pc = "new"
    /\ \E loaded \in BOOLEAN :
          model' = IF model_name = "rife" /\ loaded THEN "RIFEModel"
                   ELSE "SimpleFrameInterpolator"
    /\ pc' = "idle"
    /\ UNCHANGED <<entry, argVars, sysVars, ioVars, timeVars, end_frame, segment,
                   upscalerVars, device, metadata, output_width,
                   output_height, total_frames, frame_idx, processed_count,
                   sink, written, lastOut, enhancer, callbacks, reclaims,
                   result, interpVars, seqVars>>

\* interpolate_video, lines 99-107: VideoProcessor(input_path) raises when
\* the file is missing (the segment of a preview that ffmpeg did not write)
\* or cannot be opened
IV_Open ==
    /\ entry = "interp"
    /\ pc = (IF call = "interpolate_preview" THEN "calling" ELSE "idle")
    /\ \E opened \in BOOLEAN :
          IF opened /\ segment # "missing"
          THEN pc' = "planning" /\ result' = result
          ELSE pc' = "failed" /\ result' = Failure("CannotOpenInput")
    /\ UNCHANGED <<entry, argVars, sysVars, ioVars, timeVars, end_frame, segment,
                   upscalerVars, device, model, metadata, output_width,
                   output_height, total_frames, frame_idx, processed_count,
                   sink, written, lastOut, enhancer, callbacks, reclaims,
                   interpVars, seqVars>>

\* int(round(num / den)) for den > 0: Python's round, ties to even
RoundHalfEven(num, den) ==
    LET q == num \div den
        r == num % den
    IN  IF 2 * r < den THEN q
        ELSE IF 2 * r > den THEN q + 1
        ELSE IF q % 2 = 0 THEN q ELSE q + 1

\* target_fps after lines 110-116
PlannedFps(arg, original_fps, multiplier) ==
    LET asked == IF arg = <<>> THEN original_fps * multiplier ELSE arg[1]
    IN  IF asked > MaxFps THEN MaxFps ELSE asked

\* the target was capped (line 114)
Capped(arg, original_fps, multiplier) ==
    (IF arg = <<>> THEN original_fps * multiplier ELSE arg[1]) > MaxFps

\* variant of NoInterpolationNeeded: only a multiplier below 1 is copied
NoInterpolationNeededBelowOne(multiplier) == multiplier < 1

\* line 124: if actual_multiplier < 2
NoInterpolationNeeded(multiplier) == multiplier < 2

\* interpolate_video, lines 109-143: target fps, cap, actual multiplier, and
\* the copy of the input when the multiplier is below 2
IV_Plan ==
    /\ entry = "interp" /\ pc = "planning"
    /\ LET original_fps == metadata.fps
           planned == PlannedFps(target_fps_arg, original_fps, fps_multiplier)
       IN  /\ target_fps' = planned
           /\ IF original_fps = 0
              THEN /\ pc' = "failed"
                   /\ result' = Failure("ZeroDivisionError")
                   /\ UNCHANGED <<fps_multiplier, actual_multiplier, copied>>
              ELSE /\ fps_multiplier' =
                         IF Capped(target_fps_arg, original_fps, fps_multiplier)
                         THEN MaxFps \div original_fps
                         ELSE fps_multiplier
                   /\ actual_multiplier' = RoundHalfEven(planned, original_fps)
                   /\ IF NoInterpolationNeeded(actual_multiplier')
                      THEN \E copy_ok \in BOOLEAN :
                              IF copy_ok
                              THEN /\ copied' = TRUE
                                   /\ pc' = "completed"
                                   /\ result' =
                                        [success |-> TRUE, error |-> "",
                                         output_path |-> "output_path",
                                         frames_processed |-> metadata.frame_count,
                                         new_fps |-> original_fps,
                                         fps_multiplier |-> 0,
                                         output_frame_count |-> 0]
                              ELSE /\ copied' = FALSE
                                   /\ pc' = "failed"
                                   /\ result' = Failure("CopyError")
                      ELSE /\ pc' = "opening_sink"
                           /\ UNCHANGED <<copied, result>>
    /\ UNCHANGED <<entry, argVars, sysVars, ioVars, timeVars, end_frame, segment,
                   upscalerVars, device, model, metadata, output_width,
                   output_height, total_frames, frame_idx, processed_count,
                   sink, written, lastOut, enhancer, callbacks, reclaims,
                   model_name, target_fps_arg, frames,
                   output_frame_count_actual, seqVars>>

\* interpolate_video, lines 145-161: the writer is opened, then the frames
\* are extracted into a list; extraction stops at the first failed read
IV_OpenSink ==
    /\ entry = "interp" /\ pc = "opening_sink"
    /\ \E opened \in BOOLEAN, decoded \in 0..metadata.frame_count :
          IF opened
          THEN /\ sink' = [open |-> TRUE, w |-> metadata.width,
                           h |-> metadata.height, fps |-> target_fps]
               /\ frames' = decoded
               /\ pc' = "streaming"
               /\ result' = result
          ELSE /\ sink' = sink
               /\ frames' = frames
               /\ pc' = "failed"
               /\ result' = Failure("CannotCreateWriter")
    /\ frame_idx' = 0
    /\ processed_count' = 0
    /\ output_frame_count_actual' = 0
    /\ frame_times' = <<>>
    /\ eta' = NoEta
    /\ UNCHANGED <<entry, argVars, sysVars, ioVars, end_frame, segment,
                   upscalerVars, device, model, metadata, output_width,
                   output_height, total_frames, written, lastOut, enhancer,
                   callbacks, reclaims, model_name, fps_multiplier,
                   target_fps_arg, target_fps, actual_multiplier, copied,
                   seqVars>>

\* self.model.interpolate_frames(frames[i], frames[i + 1], num_intermediates)
interpolate_frames(kind, i, num_intermediates) ==
    rife_interpolate_frames(i, num_intermediates)

\* variant of ReportsPairProgress: the cadence of upscale_video
ReportsPairProgressEveryTen(count) == count % UpscaleProgressEvery = 0

\* line 197: processed_count % 5 == 0 (a callback is supplied)
ReportsPairProgress(count) == count % InterpProgressEvery = 0

\* variant of InterpEta: the window of upscale_video
InterpEtaUpscaleWindow(remaining, times) ==
    RollingEta(remaining, times, UpscaleWindow)

\* lines 189-192: the ETA of interpolate_video
InterpEta(remaining, times) == RollingEta(remaining, times, InterpWindow)

\* interpolate_video, lines 164-202: one iteration of the pair loop
IV_Pair ==
    /\ entry = "interp" /\ pc = "streaming"
    /\ frame_idx < frames - 1
    /\ \E flow_ok \in BOOLEAN, callback_ok \in BOOLEAN, close_ok \in BOOLEAN :
          LET count == processed_count + 1
              calls_back == ReportsPairProgress(count)
              interpolated == interpolate_frames(model, frame_idx,
                                                 actual_multiplier - 1)
          IN  IF ~HasInterpolateFrames(model) \/ ~flow_ok
              THEN /\ written' = Append(written, Original(frame_idx))
                   /\ output_frame_count_actual' = output_frame_count_actual + 1
                   /\ pc' = "failed"
                   /\ result' = Failure(ExitSink(IF HasInterpolateFrames(model)
                                                 THEN "cv2.error"
                                                 ELSE "AttributeError", close_ok))
                   /\ sink' = [sink EXCEPT !.open = FALSE]
                   /\ UNCHANGED <<processed_count, frame_idx, callbacks,
                                  timeVars>>
              ELSE /\ written' = Append(written, Original(frame_idx))
                                   \o interpolated
                   /\ output_frame_count_actual' =
                         output_frame_count_actual + 1 + Len(interpolated)
                   /\ processed_count' = count
                   /\ frame_idx' = frame_idx + 1
                   /\ frame_times' = Append(frame_times, Latency(clock, count))
                   /\ eta' = InterpEta(frames - 1 - count, frame_times')
                   /\ callbacks' = IF calls_back
                                   THEN Append(callbacks, <<count, frames - 1>>)
                                   ELSE callbacks
                   /\ IF calls_back /\ ~callback_ok
                      THEN /\ pc' = "failed"
                           /\ result' = Failure(ExitSink("CallbackError", close_ok))
                           /\ sink' = [sink EXCEPT !.open = FALSE]
                      ELSE close_ok /\ UNCHANGED <<pc, result, sink>>
    /\ UNCHANGED <<entry, argVars, sysVars, ioVars, end_frame, segment,
                   upscalerVars, device, model, metadata, output_width,
                   output_height, total_frames, lastOut, enhancer, reclaims,
                   model_name, fps_multiplier, target_fps_arg, target_fps,
                   actual_multiplier, frames, copied, seqVars>>

\* interpolate_video, lines 204-231: the last frame is written (frames[-1]
\* of an empty list raises IndexError), the with block ends and the sink is
\* closed (close() can raise), the record is returned
IV_Finish ==
    /\ entry = "interp" /\ pc = "streaming"
    /\ frame_idx >= frames - 1
    /\ sink' = [sink EXCEPT !.open = FALSE]
    /\ \E close_ok \in BOOLEAN :
          IF frames = 0
          THEN /\ pc' = "failed"
               /\ result' = Failure(ExitSink("IndexError", close_ok))
               /\ UNCHANGED <<written, output_frame_count_actual>>
          ELSE /\ written' = Append(written, Original(frames - 1))
               /\ output_frame_count_actual' = output_frame_count_actual + 1
               /\ IF ~close_ok
                  THEN pc' = "failed" /\ result' = Failure("OSError")
                  ELSE /\ pc' = "completed"
                       /\ result' = [success |-> TRUE, error |-> "",
                                     output_path |-> "output_path",
                                     frames_processed |-> processed_count,
                                     new_fps |-> target_fps,
                                     fps_multiplier |-> actual_multiplier,
                                     output_frame_count |->
                                         output_frame_count_actual']
    /\ UNCHANGED <<entry, argVars, sysVars, ioVars, timeVars, end_frame, segment,
                   upscalerVars, device, model, metadata, output_width,
                   output_height, total_frames, frame_idx, processed_count,
                   lastOut, enhancer, callbacks, reclaims, model_name,
                   fps_multiplier, target_fps_arg, target_fps,
                   actual_multiplier, frames, copied, seqVars>>

\* interpolate_preview, lines 267-283: the input is opened, ffmpeg is asked
\* to cut the first seconds into a temporary file (extract_segment returns
\* False when it fails, and the value is not looked at), and interpolate_video
\* is called on that file
IP_Preview ==
    /\ entry = "interp" /\ call = "interpolate_preview" /\ pc = "idle"
    /\ \E opened \in BOOLEAN, cut \in BOOLEAN, n \in 0..metadata.frame_count :
          IF ~opened
          THEN /\ pc' = "preview_failed"
               /\ result' = Failure("CannotOpenInput")
               /\ UNCHANGED <<segment, metadata>>
          ELSE /\ pc' = "calling"
               /\ result' = result
               /\ IF cut
                  THEN /\ segment' = "present"
                       /\ metadata' = [metadata EXCEPT !.frame_count = n]
                  ELSE /\ segment' = "missing"
                       /\ metadata' = metadata
    /\ UNCHANGED <<entry, argVars, sysVars, ioVars, timeVars, end_frame, upscalerVars, device, model,
                   output_width, output_height, total_frames, frame_idx,
                   processed_count, sink, written, lastOut, enhancer,
                   callbacks, reclaims, interpVars, seqVars>>

\* interpolate_preview, lines 285-301: the temporary file is removed when it
\* exists and the record of interpolate_video returned; an exception of
\* os.remove reaches the except branch
IP_Return ==
    /\ entry = "interp" /\ call = "interpolate_preview"
    /\ pc \in {"completed", "failed"}
    /\ \E remove_ok \in BOOLEAN :
          IF segment = "present" /\ ~remove_ok
          THEN /\ pc' = "preview_failed"
               /\ result' = Failure("OSError")
               /\ segment' = segment
          ELSE /\ remove_ok
               /\ pc' = (IF result.success THEN "preview_completed"
                         ELSE "preview_failed")
               /\ result' = result
               /\ segment' = (IF segment = "present" THEN "removed" ELSE segment)
    /\ UNCHANGED <<entry, argVars, sysVars, ioVars, timeVars, end_frame, upscalerVars, device, model,
                   metadata, output_width, output_height, total_frames,
                   frame_idx, processed_count, sink, written, lastOut,
                   enhancer, callbacks, reclaims, interpVars, seqVars>>


-----------------------------------------------------------------------------
(* SystemManager and get_system_manager (src/src/utils/system_manager.py).  *)
(* Objects have identity: a SystemManager is an index into instances, a     *)
(* settings dictionary an index into dicts, so that two names for one       *)
(* dictionary and a dictionary and its copy are told apart.  Memory sizes   *)
(* are in hundredths of a GB.                                               *)

\* the threads that call into the module (UI handlers run in worker threads)
Threads == {1, 2}

\* largest number of get_system_manager calls of a thread
MaxCalls == 2

\* available accelerator memory, in hundredths of a GB
Vrams == {399, 400, 799, 800, 1599, 1600}

\* video_resolution arguments of adjust_for_video
SysResolutions == {<<640, 480>>, <<824, 1464>>, <<1920, 1080>>, <<2560, 1440>>,
                   <<3840, 1080>>}

\* scale_factor arguments of adjust_for_video
SysScales == {2, 4}

\* values a caller stores into a dictionary it was handed
CallerBatchSizes == {64}

Max(a, b) == IF a >= b THEN a ELSE b
Min(a, b) == IF a <= b THEN a ELSE b

\* SystemManager._detect_device: the fields the settings depend on
detect_device(hw) ==
    [has_cuda |-> hw.has_cuda,
     vram_available_gb |-> IF hw.has_cuda THEN hw.vram ELSE 0]

\* variant of VramTier: the thresholds compared with > instead of >=
VramTierStrict(vram) ==
    IF vram > 1600 THEN 16 ELSE IF vram > 800 THEN 8
    ELSE IF vram > 400 THEN 4 ELSE 0

\* the branch of lines 98-125 that vram (hundredths of a GB) selects, named by
\* its threshold
VramTier(vram) ==
    IF vram >= 1600 THEN 16 ELSE IF vram >= 800 THEN 8
    ELSE IF vram >= 400 THEN 4 ELSE 0

\* the defaults of lines 81-90
DefaultSettings ==
    [device |-> "cpu", batch_size |-> 1, use_fp16 |-> FALSE,
     recommended_model |-> "realesrgan", max_scale_factor |-> 2,
     enable_temporal_coherence |-> FALSE, temporal_method |-> "ema_filter",
     tile_size |-> 256]

\* SystemManager._calculate_optimal_settings
calculate_optimal_settings(info) ==
    IF ~info.has_cuda THEN DefaultSettings
    ELSE LET cuda == [DefaultSettings EXCEPT !.device = "cuda", !.use_fp16 = TRUE]
             tier == VramTier(info.vram_available_gb)
         IN  IF tier = 16
             THEN [cuda EXCEPT !.batch_size = 16, !.max_scale_factor = 8,
                               !.enable_temporal_coherence = TRUE,
                               !.temporal_method = "optical_flow",
                               !.tile_size = 512]
             ELSE IF tier = 8
             THEN [cuda EXCEPT !.batch_size = 8, !.max_scale_factor = 4,
                               !.enable_temporal_coherence = TRUE,
                               !.temporal_method = "optical_flow",
                               !.tile_size = 384]
             ELSE IF tier = 4
             THEN [cuda EXCEPT !.batch_size = 4, !.max_scale_factor = 2,
                               !.enable_temporal_coherence = FALSE,
                               !.tile_size = 256]
             ELSE [cuda EXCEPT !.batch_size = 1, !.max_scale_factor = 2,
                               !.tile_size = 128]

\* the identities of the settings dictionaries: that of the optimal_settings
\* of SystemManager object i, and that of the dictionary the latest
\* adjust_for_video call built (the one before it is unreachable once the
\* caller's name is rebound)
CachedDict(i) == i
FreshDict == Cardinality(Threads) + 1
DictIds == 1..(Cardinality(Threads) + 1)

\* an identity no dictionary has yet
NoDict == [DefaultSettings EXCEPT !.device = "unallocated"]

\* a thread that has not called yet
IdleThread == [pc |-> "idle", inst |-> 0, calls |-> 0]

\* no method called yet
NoCall == [op |-> "", self |-> 0, args |-> <<>>, ret |-> <<>>]

\* get_system_manager, line 277: the thread reads the global and tests it
G_Check(t) ==
    /\ entry = "system"
    /\ threads[t].pc \in {"idle", "holding"}
    /\ threads[t].calls < MaxCalls
    /\ threads' = [threads EXCEPT ![t].pc = IF system_manager = 0
                                            THEN "constructing" ELSE "returning",
                                  ![t].calls = @ + 1]
    /\ UNCHANGED <<mainVars, ioVars, hardware, system_manager, detections, instances,
                   dicts, last_call>>

\* get_system_manager, line 278, and SystemManager.__init__: the hardware is
\* detected, the settings computed, and the new object stored in the global
G_Construct(t) ==
    /\ entry = "system"
    /\ threads[t].pc = "constructing"
    /\ LET info == detect_device(hardware)
       IN  /\ detections' = detections + 1
           /\ dicts' = [dicts EXCEPT ![CachedDict(Len(instances) + 1)] =
                            calculate_optimal_settings(info)]
           /\ instances' = Append(instances,
                                  [device_info |-> info,
                                   optimal_settings |->
                                       CachedDict(Len(instances) + 1)])
           /\ system_manager' = Len(instances) + 1
    /\ threads' = [threads EXCEPT ![t].pc = "returning"]
    /\ UNCHANGED <<mainVars, ioVars, hardware, last_call>>

\* get_system_manager, line 279: return _system_manager
G_Return(t) ==
    /\ entry = "system"
    /\ threads[t].pc = "returning"
    /\ threads' = [threads EXCEPT ![t].pc = "holding",
                                  ![t].inst = system_manager]
    /\ UNCHANGED <<mainVars, ioVars, hardware, system_manager, detections, instances,
                   dicts, last_call>>

\* the SystemManager objects some caller holds
Held == {threads[t].inst : t \in {u \in Threads : threads[u].pc = "holding"}}

\* variant of dict_copy: the dictionary itself is handed out
dict_alias(src, fresh) == src

\* self.optimal_settings.copy(): the identity of the dictionary that
\* adjust_for_video edits and returns, fresh being the identity of the copy
dict_copy(src, fresh) == fresh

\* variant of HalvedBatch: no lower limit
HalvedBatchUnlimited(b) == b \div 2

\* max(1, adjusted['batch_size'] // 2)
HalvedBatch(b) == Max(1, b \div 2)

\* output_width > 7680 or output_height > 4320
ExceedsEightK(w, h) == w > 7680 \/ h > 4320

\* lines 156-164 applied to the settings d for output_pixels = pixels
AdjustedSettings(d, pixels) ==
    LET d1 == IF pixels > 3840 * 2160
              THEN [d EXCEPT !.batch_size = HalvedBatch(@)] ELSE d
    IN  IF 2 * pixels > 7680 * 4320
        THEN [d1 EXCEPT !.batch_size = 1, !.tile_size = Min(@, 256)]
        ELSE d1

\* SystemManager.adjust_for_video(video_resolution, scale_factor) on object i
M_AdjustForVideo(i) ==
    /\ entry = "system"
    /\ i \in Held
    /\ \E r \in SysResolutions, scale \in SysScales :
          LET out_w == r[1] * scale
              out_h == r[2] * scale
              cached == instances[i].optimal_settings
              adjusted == dict_copy(cached, FreshDict)
              copied_dicts == [dicts EXCEPT ![FreshDict] = dicts[cached]]
          IN  IF ExceedsEightK(out_w, out_h)
              THEN /\ dicts' = [dicts EXCEPT ![FreshDict] = NoDict]
                   /\ last_call' = [op |-> "adjust_for_video", self |-> i,
                                    args |-> <<r[1], r[2], scale>>,
                                    ret |-> <<"ValueError">>]
              ELSE /\ dicts' = [copied_dicts EXCEPT ![adjusted] =
                                   AdjustedSettings(@, out_w * out_h)]
                   /\ last_call' = [op |-> "adjust_for_video", self |-> i,
                                    args |-> <<r[1], r[2], scale>>,
                                    ret |-> <<"dict", adjusted>>]
    /\ UNCHANGED <<mainVars, ioVars, hardware, system_manager, detections, instances,
                   threads>>

\* the caller stores into the dictionary adjust_for_video handed it
Caller_Mutates ==
    /\ entry = "system"
    /\ last_call.op = "adjust_for_video" /\ last_call.ret # <<"ValueError">>
    /\ \E b \in CallerBatchSizes :
          dicts' = [dicts EXCEPT ![last_call.ret[2]].batch_size = b]
    /\ last_call' = [last_call EXCEPT !.op = "caller_mutation"]
    /\ UNCHANGED <<mainVars, ioVars, hardware, system_manager, detections, instances,
                   threads>>

\* required_gb arguments of check_vram_requirement, in hundredths of a GB
RequiredGbs == {200, 800}

\* SystemManager.check_vram_requirement(required_gb): the flag of the pair
check_vram_requirement(info, required_gb) ==
    IF ~info.has_cuda THEN FALSE
    ELSE info.vram_available_gb >= required_gb

\* SystemManager.optimize_batch_size(base_batch_size, current_vram_usage):
\* usage > available * 0.8, usage and available in hundredths of a GB
optimize_batch_size(info, base_batch_size, current_vram_usage) ==
    IF ~info.has_cuda THEN 1
    ELSE IF 10 * current_vram_usage > 8 * info.vram_available_gb
    THEN Max(1, base_batch_size \div 2)
    ELSE base_batch_size

\* the methods that only read the cached records: get_device,
\* get_info_string, check_vram_requirement, optimize_batch_size, and the
\* reads of SpatialUpscaler._load_model (use_fp16, tile_size) and of
\* TemporalInterpolator._load_model (use_fp16)
Readers == {"get_device", "get_info_string", "check_vram_requirement",
            "optimize_batch_size", "SpatialUpscaler._load_model",
            "TemporalInterpolator._load_model"}

M_Read(i) ==
    /\ entry = "system"
    /\ i \in Held
    /\ \E m \in Readers, gb \in RequiredGbs :
          LET self == instances[i]
              settings == dicts[self.optimal_settings]
              value ==
                 IF m = "get_device" THEN <<settings.device>>
                 ELSE IF m = "get_info_string"
                 THEN <<self.device_info.has_cuda, settings.recommended_model,
                        settings.device, settings.batch_size,
                        settings.max_scale_factor, settings.use_fp16,
                        IF settings.enable_temporal_coherence
                        THEN settings.temporal_method ELSE "Disabled">>
                 ELSE IF m = "check_vram_requirement"
                 THEN <<check_vram_requirement(self.device_info, gb)>>
                 ELSE IF m = "optimize_batch_size"
                 THEN <<optimize_batch_size(self.device_info,
                                            settings.batch_size, gb)>>
                 ELSE IF m = "SpatialUpscaler._load_model"
                 THEN <<settings.use_fp16, settings.tile_size>>
                 ELSE <<settings.use_fp16>>
              takes_gb == m \in {"check_vram_requirement",
                                 "optimize_batch_size"}
          IN  /\ takes_gb \/ gb = 200
              /\ last_call' = [op |-> m, self |-> i,
                               args |-> IF takes_gb THEN <<gb>> ELSE <<>>,
                               ret |-> value]
    /\ UNCHANGED <<mainVars, ioVars, hardware, system_manager, detections, instances,
                   dicts, threads>>

-----------------------------------------------------------------------------
(* VideoWriter on its own (src/src/utils/video_processor.py).  A path is    *)
(* the sequence of its pieces, so that str.replace has something to         *)
(* replace: "out.mp4" is <<"out", ".mp4">>.  A file is what it holds:       *)
(*   "absent"   no file at the path                                         *)
(*   "stale"    a file that was there before the writer was opened          *)
(*   "video"    the frames written through cv2, no audio                    *)
(*   "muxed"    the output of a successful ffmpeg remux                     *)
(*   "partial"  what a failed ffmpeg run left behind                        *)

\* largest number of close() calls on one VideoWriter
MaxCloses == 2

\* output paths a caller passes
OutputPaths == {<<"out", ".mp4">>, <<"take", ".mp4", ".mp4">>,
                <<"out", ".avi">>}

\* audio_source arguments; <<>> is None
AudioSources == {<<>>, <<"in", ".mp4">>}

\* path.replace(old, new): every occurrence is replaced
str_replace(path, old, new) ==
    [i \in DOMAIN path |-> IF path[i] = old THEN new ELSE path[i]]

\* self.temp_path of a VideoWriter with an audio source
TempPath(output_path) == str_replace(output_path, ".mp4", "_temp.mp4")

\* every path a VideoWriter of the model can name
WriterPaths == OutputPaths \cup {TempPath(q) : q \in OutputPaths}

NoWriter == [pc |-> "none", output_path |-> <<>>, audio_source |-> <<>>,
             temp_path |-> <<>>, frame_count |-> 0, closes |-> 0,
             remux |-> <<>>, raised |-> ""]

NoFiles == [q \in WriterPaths |-> "absent"]

\* what subprocess.run(cmd, check=True) of _copy_audio does:
\*   "ok"                  ffmpeg exits with status 0
\*   "CalledProcessError"  ffmpeg exits with another status
\*   "FileNotFoundError"   there is no ffmpeg executable
\*   "PermissionError"     the ffmpeg found cannot be executed
RemuxOutcomes == {"ok", "CalledProcessError", "FileNotFoundError",
                  "PermissionError"}

\* variant of Caught: no handler for FileNotFoundError
CaughtCommandOnly(exc) == exc = "CalledProcessError"

\* the except clauses of _copy_audio
Caught(exc) == exc \in {"CalledProcessError", "FileNotFoundError"}

\* variant of MoveIntoPlace: the temporary file is left where it is
MoveNothing(fs, temp, out) == fs

\* if os.path.exists(self.temp_path): shutil.move(self.temp_path,
\* self.output_path); moving a file onto itself changes nothing
MoveIntoPlace(fs, temp, out) ==
    IF fs[temp] = "absent" \/ temp = out THEN fs
    ELSE [fs EXCEPT ![out] = fs[temp], ![temp] = "absent"]

\* VideoWriter._copy_audio, lines 345-381, on the files fs: the files after
\* it.  ffmpeg reads temp and writes out; a failed run may have begun to
\* write out.
copy_audio_files(fs, temp, out, outcome, leftover) ==
    IF outcome = "ok"
    THEN [fs EXCEPT ![out] = "muxed", ![temp] = "absent"]
    ELSE LET after == IF outcome = "CalledProcessError" /\ leftover
                      THEN [fs EXCEPT ![out] = "partial"] ELSE fs
         IN  IF Caught(outcome) THEN MoveIntoPlace(after, temp, out)
             ELSE after

\* ffmpeg can exit with status 0 only when its input exists and is not also
\* its output ("Output same as Input" is an error of ffmpeg), and it writes
\* to its output only after it opened its inputs
CanRemux(fs, temp, out) == fs[temp] # "absent" /\ temp # out

\* VideoWriter.__init__, lines 261-304
W_Init ==
    /\ entry = "writer" /\ writer.pc = "new"
    /\ LET temp == IF writer.audio_source # <<>>
                   THEN TempPath(writer.output_path) ELSE <<>>
           actual_output == IF writer.audio_source # <<>> THEN temp
                            ELSE writer.output_path
       IN  \E opened \in BOOLEAN :
              IF opened
              THEN /\ writer' = [writer EXCEPT !.pc = "open", !.temp_path = temp]
                   /\ files' = [files EXCEPT ![actual_output] = "video"]
              ELSE /\ writer' = [writer EXCEPT !.pc = "init_raised",
                                               !.temp_path = temp,
                                               !.raised = "ValueError"]
                   /\ files' = files
    /\ UNCHANGED <<mainVars, sysVars, download, model_dir>>

\* VideoWriter.write_frame, lines 306-318
W_WriteFrame ==
    /\ entry = "writer" /\ writer.pc = "open"
    /\ writer.frame_count < MaxFrames
    /\ writer' = [writer EXCEPT !.frame_count = @ + 1]
    /\ UNCHANGED <<mainVars, sysVars, files, download, model_dir>>

\* VideoWriter.close(copy_audio), lines 330-343, with _copy_audio: called by
\* the owner, by __exit__ (copy_audio True) and by __del__ (copy_audio False)
W_Close ==
    /\ entry = "writer" /\ writer.pc \in {"open", "closed"}
    /\ writer.closes < MaxCloses
    /\ \E copy_audio \in BOOLEAN, outcome \in RemuxOutcomes,
          leftover \in BOOLEAN :
          IF copy_audio /\ writer.audio_source # <<>> /\ writer.temp_path # <<>>
          THEN /\ outcome = "ok"
                    => CanRemux(files, writer.temp_path, writer.output_path)
               /\ leftover
                    => /\ outcome = "CalledProcessError"
                       /\ CanRemux(files, writer.temp_path, writer.output_path)
               /\ files' = copy_audio_files(files, writer.temp_path,
                                            writer.output_path, outcome, leftover)
               /\ writer' = [writer EXCEPT
                               !.pc = "closed", !.closes = @ + 1,
                               !.remux = Append(@, outcome),
                               !.raised = IF outcome = "ok" \/ Caught(outcome)
                                          THEN @ ELSE outcome]
          ELSE /\ outcome = "ok" /\ ~leftover
               /\ files' = files
               /\ writer' = [writer EXCEPT !.pc = "closed", !.closes = @ + 1]
    /\ UNCHANGED <<mainVars, sysVars, download, model_dir>>

-----------------------------------------------------------------------------
(* download_model (src/src/utils/model_downloader.py).  A file of the       *)
(* model directory is what it holds: "absent", or the name of a content;    *)
(* a checksum is the string hashlib.md5(...).hexdigest() returns, 32        *)
(* hexadecimal digits.                                                      *)

\* largest number of download_model calls of a run
MaxDownloads == 2

\* MODEL_URLS, lines 17-33: filename and md5 of each known model; "" is the
\* md5 None
MODEL_URLS ==
    [realesrgan_x4plus |->
        [filename |-> "RealESRGAN_x4plus.pth",
         md5 |-> "4fa0d38905f75ac06eb49a7951b426670"],
     realesrgan_x2plus |->
        [filename |-> "RealESRGAN_x2plus.pth", md5 |-> ""],
     realesrgan_x4plus_anime |->
        [filename |-> "RealESRGAN_x4plus_anime_6B.pth", md5 |-> ""]]

\* model names a caller passes
ModelNames == DOMAIN MODEL_URLS \cup {"realesrgan_x8"}

ModelFiles == {MODEL_URLS[n].filename : n \in DOMAIN MODEL_URLS}

\* what a file of the model directory can hold: the published weights, or
\* something else (a download cut short, an error page)
Contents == {"weights", "garbage"}

\* hashlib.md5(content).hexdigest(): 32 hexadecimal digits whatever the
\* content
hexdigest(content) ==
    IF content = "weights" THEN "99ec365d4afad750833258a1a24f44ca"
    ELSE "d41d8cd98f00b204e9800998ecf8427e"

\* verify_file_md5, lines 101-125: False when the file cannot be read
verify_file_md5(content, expected, readable) ==
    readable /\ hexdigest(content) = expected

\* what a verification that did not pass is recorded as
Verdict(readable) == IF readable THEN "failed" ELSE "unreadable"

\* the record of a call: intact is whether the published weights were at
\* the path when the call was made, fetched what download_file brought
\* ("none", "failed", or the content), verified the result of the last
\* checksum verification
NoDownload == [pc |-> "none", model_name |-> "", force_download |-> FALSE,
               ret |-> <<>>, calls |-> 0, intact |-> FALSE,
               fetched |-> "none", verified |-> "none"]

\* download_model, lines 144-164: the name is looked up and a file already
\* there returned, after its checksum when one is published
D_Call ==
    /\ entry = "download" /\ download.pc = "called"
    /\ \E readable \in BOOLEAN :
          LET name == download.model_name
              known == name \in DOMAIN MODEL_URLS
              info == MODEL_URLS[name]
              there == model_dir[info.filename] # "absent"
              passes == verify_file_md5(model_dir[info.filename], info.md5,
                                        readable)
          IN  IF ~known
              THEN download' = [download EXCEPT !.pc = "returned", !.ret = <<>>]
              ELSE IF there /\ ~download.force_download
              THEN IF info.md5 # ""
                   THEN IF passes
                        THEN download' = [download EXCEPT
                                            !.pc = "returned",
                                            !.ret = <<info.filename>>,
                                            !.verified = "passed"]
                        ELSE download' = [download EXCEPT
                                            !.pc = "downloading",
                                            !.verified = Verdict(readable)]
                   ELSE /\ readable
                        /\ download' = [download EXCEPT
                                           !.pc = "returned",
                                           !.ret = <<info.filename>>]
              ELSE /\ readable
                   /\ download' = [download EXCEPT !.pc = "downloading"]
    /\ UNCHANGED <<mainVars, sysVars, writer, files, model_dir>>

\* download_model, lines 166-183, with download_file: the file is fetched
\* (a failed fetch removes what is at the path), checked against the
\* published checksum and removed when it does not match
D_Fetch ==
    /\ entry = "download" /\ download.pc = "downloading"
    /\ \E success \in BOOLEAN, content \in Contents, readable \in BOOLEAN :
          LET info == MODEL_URLS[download.model_name]
              passes == verify_file_md5(content, info.md5, readable)
          IN  IF ~success
              THEN /\ content = "garbage" /\ readable
                   /\ model_dir' = [model_dir EXCEPT ![info.filename] = "absent"]
                   /\ download' = [download EXCEPT !.pc = "returned",
                                                   !.ret = <<>>,
                                                   !.fetched = "failed"]
              ELSE IF info.md5 # ""
              THEN IF passes
                   THEN /\ model_dir' = [model_dir EXCEPT ![info.filename] = content]
                        /\ download' = [download EXCEPT
                                           !.pc = "returned",
                                           !.ret = <<info.filename>>,
                                           !.fetched = content,
                                           !.verified = "passed"]
                   ELSE /\ model_dir' = [model_dir EXCEPT ![info.filename] = "absent"]
                        /\ download' = [download EXCEPT
                                           !.pc = "returned", !.ret = <<>>,
                                           !.fetched = content,
                                           !.verified = Verdict(readable)]
              ELSE /\ readable
                   /\ model_dir' = [model_dir EXCEPT ![info.filename] = content]
                   /\ download' = [download EXCEPT
                                      !.pc = "returned",
                                      !.ret = <<info.filename>>,
                                      !.fetched = content]
    /\ UNCHANGED <<mainVars, sysVars, writer, files>>

\* the caller calls download_model again
D_Again ==
    /\ entry = "download" /\ download.pc = "returned"
    /\ download.calls < MaxDownloads
    /\ \E name \in ModelNames, force \in BOOLEAN :
          download' = [NoDownload EXCEPT
                          !.pc = "called", !.model_name = name,
                          !.force_download = force,
                          !.calls = download.calls + 1,
                          !.intact = name \in DOMAIN MODEL_URLS
                                     /\ model_dir[MODEL_URLS[name].filename]
                                            = "weights"]
    /\ UNCHANGED <<mainVars, sysVars, writer, files, model_dir>>

-----------------------------------------------------------------------------

InitCommon ==
    /\ pc = "new"
    /\ use_ai = FALSE /\ ai_model_scale = 0
    /\ output_width = 0 /\ output_height = 0 /\ total_frames = 0
    /\ frame_idx = 0 /\ processed_count = 0
    /\ sink = NoSink /\ written = <<>> /\ lastOut = Frame(0, 0)
    /\ enhancer = NoEnhancer /\ callbacks = <<>> /\ reclaims = 0
    /\ result = NoResult
    /\ target_fps = 0 /\ actual_multiplier = 0 /\ frames = 0
    /\ output_frame_count_actual = 0 /\ copied = FALSE
    /\ seq_out = <<>>
    /\ segment = "none"
    /\ frame_times = <<>> /\ eta = NoEta

\* the module state before anything called get_system_manager
InitNoSystem ==
    /\ hardware = [has_cuda |-> FALSE, vram |-> 0]
    /\ system_manager = 0 /\ detections = 0
    /\ instances = <<>> /\ dicts = [i \in DictIds |-> NoDict]
    /\ threads = [t \in Threads |-> IdleThread]
    /\ last_call = NoCall

\* no VideoWriter and no download_model call on their own, and the clock
\* of the short runs
InitNoFiles ==
    /\ writer = NoWriter /\ files = NoFiles
    /\ download = NoDownload /\ model_dir = [f \in ModelFiles |-> "absent"]

InitSteady == clock = "steady"

\* upscale_video over the whole input: every scale, resolution and device
InitUpscale ==
    /\ entry = "upscale" /\ call = "upscale_video"
    /\ scale_factor \in Scales
    /\ device \in Devices
    /\ \E r \in Resolutions, n \in 0..MaxFrames :
          metadata = [width |-> r[1], height |-> r[2], fps |-> 30,
                      frame_count |-> n]
    /\ start_frame = 0 /\ end_frame = <<>> /\ duration = 0
    /\ model = "None"
    /\ model_name = "" /\ fps_multiplier = 0 /\ target_fps_arg = <<>>
    /\ seq_in = 0

\* scales of the runs over a frame range and of the previews
RangeScales == {50, 200}

\* start_frame arguments
StartFrames == {0, 1}

\* end_frame arguments; <<>> is None
EndFrames == {<<>>, <<0>>, <<2>>, <<5>>}

\* preview durations, in hundredths of a second: 0 s, 0.05 s and the default
\* 5 s
Durations == {0, 5, 500}

\* upscale_video over a frame range
InitUpscaleRange ==
    /\ entry = "upscale" /\ call = "upscale_video"
    /\ scale_factor \in RangeScales
    /\ device = "cpu"
    /\ \E n \in 0..MaxFrames :
          metadata = [width |-> 640, height |-> 480, fps |-> 30,
                      frame_count |-> n]
    /\ start_frame \in StartFrames /\ end_frame \in EndFrames
    /\ start_frame # 0 \/ end_frame # <<>>
    /\ duration = 0
    /\ model = "None"
    /\ model_name = "" /\ fps_multiplier = 0 /\ target_fps_arg = <<>>
    /\ seq_in = 0

\* upscale_preview
InitUpscalePreview ==
    /\ entry = "upscale" /\ call = "upscale_preview"
    /\ scale_factor \in RangeScales
    /\ device = "cpu"
    /\ \E n \in 0..MaxFrames :
          metadata = [width |-> 640, height |-> 480, fps |-> 30,
                      frame_count |-> n]
    /\ start_frame = 0 /\ end_frame = <<>>
    /\ duration \in Durations
    /\ model = "None"
    /\ model_name = "" /\ fps_multiplier = 0 /\ target_fps_arg = <<>>
    /\ seq_in = 0

\* largest frame-rate multiplier a caller asks for
MaxMult == 4

\* source frame rates
FrameRates == {0, 30, 96, 200}

\* explicit target_fps arguments; <<>> is None
TargetFpsArgs == {<<>>, <<45>>, <<300>>}

InitInterp ==
    /\ entry = "interp"
    /\ model_name \in {"rife", "simple", "other"}
    /\ fps_multiplier \in -1..MaxMult
    /\ \/ call = "interpolate_video" /\ target_fps_arg \in TargetFpsArgs
       \/ call = "interpolate_preview" /\ target_fps_arg = <<>>
    /\ start_frame = 0 /\ end_frame = <<>> /\ duration = 500
    /\ device = "cpu" /\ model = "None"
    /\ \E f \in FrameRates, n \in 0..MaxFrames :
          metadata = [width |-> 640, height |-> 480, fps |-> f,
                      frame_count |-> n]
    /\ scale_factor = 0 /\ seq_in = 0

InitSequence ==
    /\ entry = "sequence" /\ call = "interpolate_sequence"
    /\ start_frame = 0 /\ end_frame = <<>> /\ duration = 0
    /\ model \in {"RIFEModel", "SimpleFrameInterpolator"}
    /\ fps_multiplier \in 1..MaxMult
    /\ seq_in \in 0..MaxFrames
    /\ device = "cpu"
    /\ metadata = [width |-> 640, height |-> 480, fps |-> 30,
                   frame_count |-> seq_in]
    /\ model_name = "" /\ target_fps_arg = <<>> /\ scale_factor = 0

InitQuiet == InitCommon /\ InitNoSystem /\ InitNoFiles

Init ==
    \/ InitQuiet /\ InitSteady /\ InitUpscale
    \/ InitQuiet /\ InitSteady /\ InitUpscaleRange
    \/ InitQuiet /\ InitSteady /\ InitUpscalePreview
    \/ InitQuiet /\ InitSteady /\ InitInterp
    \/ InitQuiet /\ InitSteady /\ InitSequence

Next ==
    \/ Construct
    \/ UV_Open
    \/ UV_Validate
    \/ UV_OpenSink
    \/ UV_Frame
    \/ UV_EndOfFrames
    \/ UV_Finish
    \/ UP_Preview
    \/ SeqExpand
    \/ IConstruct
    \/ IV_Open
    \/ IV_Plan
    \/ IV_OpenSink
    \/ IV_Pair
    \/ IV_Finish
    \/ IP_Preview
    \/ IP_Return

Spec == Init /\ [][Next]_vars

\* the process before its first get_system_manager call, on every hardware
SysInit ==
    /\ InitCommon /\ InitNoFiles /\ InitSteady
    /\ entry = "system" /\ call = "get_system_manager"
    /\ scale_factor = 0 /\ device = "cpu" /\ model = "None"
    /\ metadata = [width |-> 0, height |-> 0, fps |-> 0, frame_count |-> 0]
    /\ start_frame = 0 /\ end_frame = <<>> /\ duration = 0
    /\ model_name = "" /\ fps_multiplier = 0 /\ target_fps_arg = <<>>
    /\ seq_in = 0
    /\ \/ hardware = [has_cuda |-> FALSE, vram |-> 0]
       \/ \E v \in Vrams : hardware = [has_cuda |-> TRUE, vram |-> v]
    /\ system_manager = 0 /\ detections = 0
    /\ instances = <<>> /\ dicts = [i \in DictIds |-> NoDict]
    /\ threads = [t \in Threads |-> IdleThread]
    /\ last_call = NoCall

SysNext ==
    \/ \E t \in Threads : G_Check(t)
    \/ \E t \in Threads : G_Construct(t)
    \/ \E t \in Threads : G_Return(t)
    \/ \E i \in 1..Len(instances) : M_AdjustForVideo(i)
    \/ \E i \in 1..Len(instances) : M_Read(i)
    \/ Caller_Mutates

SysSpec == SysInit /\ [][SysNext]_vars

\* frame count of the long inputs of upscale_video
MaxLongFrames == 51

\* number of frame pairs of the long inputs of interpolate_video
MaxLongPairs == 12

\* scales of the long runs: resize only, and one pass of the 2x model
LongScales == {120, 200}

\* upscale_video over a long input, under every clock
InitUpscaleLong ==
    /\ entry = "upscale" /\ call = "upscale_video"
    /\ scale_factor \in LongScales
    /\ device \in Devices
    /\ clock \in Clocks
    /\ metadata = [width |-> 640, height |-> 480, fps |-> 30,
                   frame_count |-> MaxLongFrames]
    /\ start_frame = 0 /\ end_frame = <<>> /\ duration = 0
    /\ model = "None"
    /\ model_name = "" /\ fps_multiplier = 0 /\ target_fps_arg = <<>>
    /\ seq_in = 0

\* interpolate_video over a long input, under every clock
InitInterpLong ==
    /\ entry = "interp" /\ call = "interpolate_video"
    /\ model_name \in {"rife", "simple"}
    /\ fps_multiplier = 2 /\ target_fps_arg = <<>>
    /\ clock \in Clocks
    /\ start_frame = 0 /\ end_frame = <<>> /\ duration = 0
    /\ device = "cpu" /\ model = "None"
    /\ metadata = [width |-> 640, height |-> 480, fps |-> 30,
                   frame_count |-> MaxLongPairs + 1]
    /\ scale_factor = 0 /\ seq_in = 0

StreamInit ==
    \/ InitQuiet /\ InitUpscaleLong
    \/ InitQuiet /\ InitInterpLong

StreamNext ==
    \/ Construct
    \/ UV_Open
    \/ UV_Validate
    \/ UV_OpenSink
    \/ UV_Frame
    \/ UV_EndOfFrames
    \/ UV_Finish
    \/ IConstruct
    \/ IV_Open
    \/ IV_Plan
    \/ IV_OpenSink
    \/ IV_Pair
    \/ IV_Finish

\* the long runs: the loops of upscale_video and interpolate_video past
\* their cadences and rolling windows
StreamSpec == StreamInit /\ [][StreamNext]_vars

\* no pipeline run: the arguments and the objects of the pipeline at rest
InitNoPipeline ==
    /\ InitCommon /\ InitNoSystem /\ InitSteady
    /\ scale_factor = 0 /\ device = "cpu" /\ model = "None"
    /\ metadata = [width |-> 0, height |-> 0, fps |-> 0, frame_count |-> 0]
    /\ start_frame = 0 /\ end_frame = <<>> /\ duration = 0
    /\ model_name = "" /\ fps_multiplier = 0 /\ target_fps_arg = <<>>
    /\ seq_in = 0

\* a VideoWriter about to be constructed, for every output path and audio
\* source, with or without a file already at the output path
WriterInit ==
    /\ InitNoPipeline
    /\ entry = "writer" /\ call = "VideoWriter"
    /\ download = NoDownload /\ model_dir = [f \in ModelFiles |-> "absent"]
    /\ \E out \in OutputPaths, audio \in AudioSources :
          /\ writer = [NoWriter EXCEPT !.pc = "new", !.output_path = out,
                                       !.audio_source = audio]
          /\ \E before \in {"absent", "stale"} :
                files = [NoFiles EXCEPT ![out] = before]

WriterNext == W_Init \/ W_WriteFrame \/ W_Close

WriterSpec == WriterInit /\ [][WriterNext]_vars

\* a first call of download_model, for every name and every content of the
\* model directory
DownloadInit ==
    /\ InitNoPipeline
    /\ entry = "download" /\ call = "download_model"
    /\ writer = NoWriter /\ files = NoFiles
    /\ model_dir \in [ModelFiles -> Contents \cup {"absent"}]
    /\ \E name \in ModelNames, force \in BOOLEAN :
          download = [NoDownload EXCEPT
                         !.pc = "called", !.model_name = name,
                         !.force_download = force, !.calls = 1,
                         !.intact = name \in DOMAIN MODEL_URLS
                                    /\ model_dir[MODEL_URLS[name].filename]
                                           = "weights"]

DownloadNext == D_Call \/ D_Fetch \/ D_Again

DownloadSpec == DownloadInit /\ [][DownloadNext]_vars


-----------------------------------------------------------------------------
(* Properties of the scale decomposition and of upscale_video *)

\* _upscale_frame ran on a frame of this run
FrameDone == entry = "upscale" /\ lastOut # Frame(0, 0)

\* _upscale_frame returned a frame (no exception left it)
FrameReturned == FrameDone /\ lastOut.error = ""

\* the resolution check let the run through
CeilingPassed == entry = "upscale" /\
                 pc \in {"opening_sink", "streaming", "finalizing", "completed"}

\* floor(log_4(s)) for s >= 4: the largest k with 4^k <= s
FloorLog4(s100) == CHOOSE k \in 1..MaxPasses :
                      100 * Pow(4, k) <= s100 /\ s100 < 100 * Pow(4, k + 1)

\* the pixel count of 7680 x 4320
EightKPixels == 33177600

\* C1 (as claimed): for every accepted scale s >= 8 the frame gets exactly
\* floor(log_4(s)) enhancer passes (1 for 8 <= s < 16, 2 for s = 16), and a
\* Resize follows iff s / 4^passes differs from 1.0 by more than 0.01.
C1_PassesAreFloorLog4 ==
    (FrameReturned /\ scale_factor >= 800) =>
        LET passes == FloorLog4(scale_factor)
        IN  /\ Cardinality(EnhancerSteps(lastOut)) = passes
            /\ (ResizeSteps(lastOut) # {}) <=>
                  NotExact(scale_factor, 100 * Pow(4, passes))

\* C2 (as claimed): every output whose pixel count exceeds 7680 * 4320 is
\* rejected by the resolution check of upscale_video.
C2_RejectsAbove8K ==
    CeilingPassed => ~ProductExceeds(output_width, output_height, EightKPixels)

C5_OnePassAtFour ==
    (FrameReturned /\ metadata.width = 1920 /\ metadata.height = 1080
       /\ scale_factor = 250) =>
        /\ Len(lastOut.steps) = 2
        /\ lastOut.steps[1].op = "ApplyEnhancer" /\ lastOut.steps[1].num = 4
        /\ lastOut.steps[2].op = "Resize"
        /\ lastOut.w = 4800 /\ lastOut.h = 2700

\* C5 (amended): 1920x1080 at 2.5 is one pass of the 2x model (3840x2160),
\* then a Resize to 4800x2700; the final frame is 4800x2700.
C5_OnePassAtTwo ==
    (FrameReturned /\ metadata.width = 1920 /\ metadata.height = 1080
       /\ scale_factor = 250) =>
        /\ ai_model_scale = 2
        /\ Len(lastOut.steps) = 2 /\ lastOut.calls = 1
        /\ lastOut.steps[1].op = "ApplyEnhancer" /\ lastOut.steps[1].num = 2
        /\ lastOut.steps[1].w = 3840 /\ lastOut.steps[1].h = 2160
        /\ lastOut.steps[2].op = "Resize"
        /\ lastOut.steps[2].w = 4800 /\ lastOut.steps[2].h = 2700
        /\ lastOut.w = 4800 /\ lastOut.h = 2700

C5_Witness ==
    /\ FrameReturned /\ metadata.width = 1920 /\ metadata.height = 1080
    /\ scale_factor = 250 /\ Len(written) >= 1

\* the product of the enhancer ratios of a frame
EnhancerProduct(fr) == Pow(ai_model_scale, Cardinality(EnhancerSteps(fr)))

C7_TargetPositive ==
    CeilingPassed => (output_width >= 1 /\ output_height >= 1)

\* round(d * s), Python's round (ties to even)
RoundDim(d, s100) ==
    LET q == (d * s100) \div 100
        r == (d * s100) % 100
    IN  IF 2 * r < 100 THEN q
        ELSE IF 2 * r > 100 THEN q + 1
        ELSE IF q % 2 = 0 THEN q ELSE q + 1

\* the integer part of d * s for 0 < s < 1, stated without a division
Truncated(d, s100) == CHOOSE k \in 0..d :
                         100 * k <= d * s100 /\ d * s100 < 100 * (k + 1)

\* C8 (as claimed): below 1.0 the frame gets one Resize, no enhancer call, and
\* comes out as (round(width * s), round(height * s)).
C8_DownscaleRounds ==
    (FrameReturned /\ scale_factor < 100) =>
        /\ lastOut.calls = 0 /\ Len(lastOut.steps) = 1
        /\ lastOut.steps[1].op = "Resize"
        /\ lastOut.w = RoundDim(metadata.width, scale_factor)
        /\ lastOut.h = RoundDim(metadata.height, scale_factor)

\* C8 (amended): below 1.0 the frame gets no enhancer call and one Resize whose
\* target is (int(width * s), int(height * s)), the truncated products; the
\* frame comes out with these dimensions, and the Resize raises when one of
\* them is 0.
C8_DownscaleTruncates ==
    (FrameDone /\ scale_factor < 100) =>
        /\ lastOut.calls = 0 /\ enhancer.calls = 0
        /\ IF lastOut.error = ""
           THEN /\ Len(lastOut.steps) = 1
                /\ lastOut.steps[1].op = "Resize"
                /\ lastOut.w = Truncated(metadata.width, scale_factor)
                /\ lastOut.h = Truncated(metadata.height, scale_factor)
                /\ lastOut.w >= 1 /\ lastOut.h >= 1
           ELSE /\ lastOut.steps = <<>>
                /\ \/ Truncated(metadata.width, scale_factor) = 0
                   \/ Truncated(metadata.height, scale_factor) = 0

\* a downscaled frame whose truncated and rounded sizes differ
C8_Witness ==
    /\ FrameReturned /\ scale_factor = 66 /\ metadata.width = 10
    /\ lastOut.w = 6 /\ lastOut.h = 4 /\ Len(written) >= 1


-----------------------------------------------------------------------------
(* Properties of the temporal expansion and of interpolate_video *)

\* the expansion of n frames by m: frame i, then the m - 1 frames at
\* timesteps j / m between i and i + 1, and the last frame once at the end
IsExpansion(out, n, m) ==
    /\ Len(out) = (n - 1) * m + 1
    /\ \A i \in 0..(n - 2) :
          /\ out[i * m + 1] = Original(i)
          /\ \A j \in 1..(m - 1) :
                /\ out[i * m + 1 + j].src = i
                /\ out[i * m + 1 + j].j = j
                /\ out[i * m + 1 + j].m = m
    /\ out[(n - 1) * m + 1] = Original(n - 1)

\* interpolate_video ran its pair loop to the end of the frames it decoded
InterpolationDone == entry = "interp" /\ pc = "completed" /\ ~copied

\* C4 (as claimed): with the SimpleFrameInterpolator in place the run over
\* n >= 2 frames with multiplier m >= 2 does not fail in the interpolation,
\* and it writes the same (n-1)*m+1 frames at the same timesteps as with the
\* primary interpolator.
C4_FallbackSameExpansion ==
    (entry = "interp" /\ model = "SimpleFrameInterpolator" /\ frames >= 2
       /\ actual_multiplier >= 2) =>
        /\ pc = "failed" => result.error = "CallbackError"
        /\ pc = "completed" =>
              /\ result.success
              /\ written = rife_interpolate_sequence(frames, actual_multiplier)

\* C9: for n >= 2 frames and multiplier m >= 2 the expansion has exactly
\* (n-1)*m+1 frames: per pair the first frame and m-1 interpolated frames,
\* and the last source frame once; for interpolate_sequence of both models
\* and for the frames interpolate_video writes.
C9_ExpansionLength ==
    /\ (entry = "sequence" /\ pc = "returned" /\ seq_in >= 2
          /\ fps_multiplier >= 2) =>
            /\ Len(seq_out) = (seq_in - 1) * fps_multiplier + 1
            /\ IsExpansion(seq_out, seq_in, fps_multiplier)
    /\ (InterpolationDone /\ frames >= 2) =>
            /\ actual_multiplier >= 2
            /\ Len(written) = (frames - 1) * actual_multiplier + 1
            /\ IsExpansion(written, frames, actual_multiplier)
            /\ output_frame_count_actual = Len(written)
            /\ result.output_frame_count = (frames - 1) * actual_multiplier + 1

\* an interpolation run over three frames with two frames inserted per pair
C9_Witness ==
    /\ InterpolationDone /\ frames >= 3 /\ actual_multiplier >= 3
    /\ Len(written) >= 7 /\ result.success

\* C10 (as claimed): a multiplier below 1 (and no explicit target) fails the
\* run: no success record, no output path, nothing delivered.
C10_InvalidMultiplierFails ==
    (entry = "interp" /\ target_fps_arg = <<>> /\ fps_multiplier < 1) =>
        /\ ~result.success
        /\ result.output_path = "None"
        /\ ~copied

-----------------------------------------------------------------------------
(* Properties of the entry points: records, ordering, resolution ceiling *)

\* positions at which an entry point has returned its record
ReturnedFailed == {"failed", "preview_failed"}
ReturnedOk == {"completed", "preview_completed"}

\* the run is a call of upscale_video, upscale_preview, interpolate_video or
\* interpolate_preview on a constructed object
InEntryPoint == entry \in {"upscale", "interp"} /\ pc \notin {"new", "ctor_raised"}

StrictlyOrdered(out) ==
    \A k \in 1..Len(out), l \in 1..Len(out) :
        k < l => \/ out[k].src < out[l].src
                 \/ out[k].src = out[l].src /\ out[k].j < out[l].j

\* source frame i is in out exactly once
WrittenOnce(out, i) ==
    Cardinality({k \in 1..Len(out) : out[k].src = i /\ out[k].j = 0}) = 1

\* C12: frames reach the sink in strictly increasing source order, each
\* source frame of the range once: upscale_video writes frame start_frame,
\* start_frame + 1, ... one entry per frame processed, and when the whole
\* range of N >= 1 frames was decoded a completed run wrote N frames and
\* reports frames_processed = N; interpolate_video writes every source frame
\* once, the frames interpolated for pair (i, i+1) between frames i and i+1.
C12_InOrderExactlyOnce ==
    /\ entry = "upscale" =>
          /\ Len(written) = processed_count
          /\ \A k \in 1..Len(written) :
                /\ written[k].src = start_frame + k - 1
                /\ written[k].j = 0
          /\ pc = "completed" =>
                /\ result.frames_processed = Len(written)
                /\ frame_idx = end_frame[1] /\ total_frames >= 1 =>
                      /\ Len(written) = total_frames
                      /\ result.frames_processed = total_frames
                      /\ \A i \in start_frame..(end_frame[1] - 1) :
                            WrittenOnce(written, i)
    /\ entry = "interp" =>
          /\ StrictlyOrdered(written)
          /\ \A k \in 1..Len(written) :
                written[k].j > 0 => /\ k > 1 /\ written[k].src < frames - 1
                                    /\ written[k - 1].src = written[k].src
                                    /\ written[k - 1].j = written[k].j - 1
          /\ InterpolationDone =>
                \A i \in 0..(frames - 1) : WrittenOnce(written, i)

\* a completed upscale_video over the range 1..2 of a three-frame input
C12_Witness ==
    /\ entry = "upscale" /\ pc = "completed" /\ start_frame = 1
    /\ frame_idx = end_frame[1] /\ Len(written) = 2
    /\ result.frames_processed = 2

\* C13: an output resolution over the ceiling takes upscale_video from
\* validating straight to failed: the record has success = false and an
\* error naming the resolution, no sink was opened, no frame decoded,
\* enhanced or written.
C13_CeilingFailsBeforeSink ==
    (entry = "upscale"
       /\ ProductExceeds(output_width, output_height, MaxOutputPixels)) =>
        /\ pc = "failed"
        /\ ~result.success /\ result.output_path = "None"
        /\ result.error = "Output resolution (" \o ToString(output_width)
                            \o "x" \o ToString(output_height)
                            \o ") exceeds 8K limit"
        /\ sink = NoSink /\ written = <<>>
        /\ lastOut = Frame(0, 0) /\ enhancer = NoEnhancer
        /\ frame_idx = 0 /\ processed_count = 0 /\ callbacks = <<>>

\* 1920x1080 at 16.0 is rejected as 30720x17280
C13_Witness ==
    /\ entry = "upscale" /\ pc = "failed"
    /\ result.error = "Output resolution (30720x17280) exceeds 8K limit"
    /\ sink = NoSink /\ written = <<>>

\* upscale_video has computed the output resolution and checked it
Validated ==
    /\ entry = "upscale"
    /\ \/ CeilingPassed
       \/ pc = "failed" /\ result.error # "CannotOpenInput"

\* the run was rejected by the resolution check
Rejected == pc = "failed" /\ result.error =
                ExceedsLimitMessage(output_width, output_height)

\* C14: the verdict of the resolution check is the same for (w, h) and
\* (h, w): an output is rejected exactly when the transposed output is over
\* the ceiling; 3296x5856 and 4320x7680 pass, 8640x15360 fails.
C14_VerdictSymmetric ==
    Validated =>
        /\ Rejected <=> ProductExceeds(output_height, output_width,
                                       MaxOutputPixels)
        /\ (output_width = 3296 /\ output_height = 5856) => ~Rejected
        /\ (output_width = 4320 /\ output_height = 7680) => ~Rejected
        /\ (output_width = 8640 /\ output_height = 15360) => Rejected

\* a completed run with the portrait output 4320x7680
C14_Witness ==
    /\ entry = "upscale" /\ pc = "completed"
    /\ output_width = 4320 /\ output_height = 7680 /\ Len(written) >= 1

-----------------------------------------------------------------------------
(* Properties of SystemManager and get_system_manager *)

\* the latest call was adjust_for_video and its result is still as returned
AdjustCalled == entry = "system" /\ last_call.op = "adjust_for_video"

\* the output size and pixel count of the latest adjust_for_video call
AdjustWidth == last_call.args[1] * last_call.args[3]
AdjustHeight == last_call.args[2] * last_call.args[3]

\* C15 (as claimed): adjust_for_video has no per-dimension cap: whenever the
\* output pixel count is within the ceiling (here: at most 7680 * 4320) it
\* returns a settings record instead of raising.
C15_NoPerDimensionCap ==
    (AdjustCalled /\ ~ProductExceeds(AdjustWidth, AdjustHeight, EightKPixels))
        => last_call.ret[1] = "dict"

\* C16: for every cached profile and accepted target, adjust_for_video
\* returns batch_size = max(1, cached // 2) when the output pixel count is
\* over 3840*2160 and at most 7680*4320/2, batch_size = 1 and tile_size =
\* min(cached tile, 256) when it is over 7680*4320/2, and the cached values
\* otherwise; the batch size returned is >= 1 and <= the cached one.
C16_BatchAndTileTiers ==
    (AdjustCalled /\ last_call.ret[1] = "dict") =>
        LET pixels == AdjustWidth * AdjustHeight
            was == dicts[instances[last_call.self].optimal_settings]
            got == dicts[last_call.ret[2]]
        IN  /\ (pixels > 8294400 /\ pixels <= 16588800) =>
                  /\ got.batch_size = (IF was.batch_size \div 2 >= 1
                                       THEN was.batch_size \div 2 ELSE 1)
                  /\ got.tile_size = was.tile_size
            /\ pixels > 16588800 =>
                  /\ got.batch_size = 1
                  /\ got.tile_size = (IF was.tile_size <= 256
                                      THEN was.tile_size ELSE 256)
            /\ pixels <= 8294400 => got = was
            /\ got.batch_size >= 1 /\ got.batch_size <= was.batch_size
            /\ [got EXCEPT !.batch_size = 0, !.tile_size = 0]
                  = [was EXCEPT !.batch_size = 0, !.tile_size = 0]

\* 5120x2880 on a 16 GB accelerator: the batch size goes from 16 to 8
C16_Witness ==
    /\ AdjustCalled /\ last_call.args = <<2560, 1440, 2>>
    /\ last_call.ret[1] = "dict"
    /\ dicts[instances[last_call.self].optimal_settings].batch_size = 16
    /\ dicts[last_call.ret[2]].batch_size = 8

\* C17: with an accelerator, available memory v (GB) gives: v >= 16 -> batch
\* 16, tile 512, max scale 8; 8 <= v < 16 -> batch 8, tile 384, max scale 4;
\* 4 <= v < 8 -> batch 4, tile 256, max scale 2, temporal coherence off;
\* v < 4 -> batch 1, tile 128, max scale 2.
C17_VramTiers ==
    entry = "system" =>
        \A i \in 1..Len(instances) :
            LET v == instances[i].device_info.vram_available_gb
                st == dicts[instances[i].optimal_settings]
            IN  instances[i].device_info.has_cuda =>
                  /\ v >= 1600 =>
                        /\ st.batch_size = 16 /\ st.tile_size = 512
                        /\ st.max_scale_factor = 8
                  /\ (v >= 800 /\ v < 1600) =>
                        /\ st.batch_size = 8 /\ st.tile_size = 384
                        /\ st.max_scale_factor = 4
                  /\ (v >= 400 /\ v < 800) =>
                        /\ st.batch_size = 4 /\ st.tile_size = 256
                        /\ st.max_scale_factor = 2
                        /\ ~st.enable_temporal_coherence
                  /\ v < 400 =>
                        /\ st.batch_size = 1 /\ st.tile_size = 128
                        /\ st.max_scale_factor = 2
                  /\ st.device = "cuda"

\* an accelerator with exactly 8 GB available is in the 8 GB tier
C17_Witness ==
    /\ entry = "system" /\ Len(instances) >= 1
    /\ instances[1].device_info.has_cuda
    /\ instances[1].device_info.vram_available_gb = 800
    /\ dicts[instances[1].optimal_settings].batch_size = 8

\* the dictionaries that are the optimal_settings of a SystemManager
CachedDicts == {instances[i].optimal_settings : i \in 1..Len(instances)}

\* C18: once a SystemManager is constructed its device_info and
\* optimal_settings are never changed by adjust_for_video, the reading
\* methods, the model loads of the processors or the caller's stores into
\* a dictionary it was handed; the dictionary adjust_for_video returns is
\* never the cached one.
C18_CachedSettingsFrozen ==
    /\ [](AdjustCalled /\ last_call.ret[1] = "dict"
            => last_call.ret[2] \notin CachedDicts)
    /\ [][\A i \in 1..Len(instances) :
             /\ instances'[i] = instances[i]
             /\ dicts'[instances[i].optimal_settings]
                  = dicts[instances[i].optimal_settings]]_vars

\* the caller has overwritten the batch size of the dictionary it was handed
\* and the cached one is as computed
C18_Witness ==
    /\ entry = "system" /\ last_call.op = "caller_mutation"
    /\ dicts[last_call.ret[2]].batch_size = 64
    /\ dicts[instances[last_call.self].optimal_settings]
          = calculate_optimal_settings(instances[last_call.self].device_info)

\* C19 (as claimed): whatever the number of get_system_manager calls and
\* threads, the hardware is detected once and every call returns the same
\* SystemManager.
C19_DetectedOnce ==
    entry = "system" =>
        /\ detections <= 1
        /\ \A t \in Threads, u \in Threads :
              (threads[t].inst # 0 /\ threads[u].inst # 0)
                  => threads[t].inst = threads[u].inst

-----------------------------------------------------------------------------
(* Properties of VideoWriter.close *)

\* _copy_audio ran on a writer opened with an audio source, and every
\* subprocess.run of it ended in one of the three outcomes the method
\* provides for
Remuxed ==
    /\ entry = "writer" /\ writer.pc = "closed"
    /\ writer.audio_source # <<>>
    /\ writer.remux # <<>>
    /\ \A i \in DOMAIN writer.remux :
          writer.remux[i] \in {"ok", "CalledProcessError", "FileNotFoundError"}

\* C21: after close() on a sink opened with an audio source, whether the
\* remux succeeded, the ffmpeg command failed or ffmpeg was not found,
\* close() has not raised and a video file is at the declared output path;
\* after the two failures that file is the video-only file the frames were
\* written to, and nothing is left at the temporary path unless it is the
\* output path itself; after a success it is the remuxed file.
C21_CloseLeavesVideoAtOutput ==
    Remuxed =>
        /\ writer.raised = ""
        /\ files[writer.output_path] \in {"video", "muxed"}
        /\ writer.remux[1] # "ok" => files[writer.output_path] = "video"
        /\ writer.remux[1] = "ok" => files[writer.output_path] = "muxed"
        /\ writer.temp_path # writer.output_path
              => files[writer.temp_path] = "absent"

\* the remux failed on a writer whose temporary path differs from its
\* output path, after at least one frame was written
C21_Witness ==
    /\ Remuxed
    /\ writer.remux[1] = "FileNotFoundError"
    /\ writer.temp_path # writer.output_path
    /\ writer.frame_count >= 1
    /\ files[writer.output_path] = "video"

-----------------------------------------------------------------------------
(* Properties of the frame loops: cadences, ETA, progress *)

\* the frame loop of upscale_video is running or has run to its end
UpscaleLoopAlive ==
    entry = "upscale" /\ pc \in {"streaming", "finalizing", "completed"}

\* C22: while the loop of upscale_video goes on, the progress callback has
\* been invoked exactly at the processed counts 10, 20, ... and the cache
\* reclaim exactly at 50, 100, ...: after N frames there were N div 10
\* callback invocations and N div 50 reclaim invocations.
C22_ProgressAndReclaimCadence ==
    UpscaleLoopAlive =>
        /\ Len(callbacks) = processed_count \div 10
        /\ \A i \in DOMAIN callbacks : callbacks[i][1] = 10 * i
        /\ reclaims = processed_count \div 50

\* a run that processed at least 50 frames returned its record
C22_Witness ==
    /\ entry = "upscale" /\ pc = "completed"
    /\ processed_count >= 50
    /\ Len(callbacks) = 5 /\ reclaims = 1

\* the latencies of frames from..to of a run under a clock, added up
RECURSIVE LatencySum(_, _, _)
LatencySum(profile, from, to) ==
    IF from > to THEN 0
    ELSE Latency(profile, to) + LatencySum(profile, from, to - 1)

\* the fraction a is below the fraction b (denominators positive)
FractionLess(a, b) == a.num * b.den < b.num * a.den

\* after a processed frame of upscale_video, eta is (total_frames -
\* processed_count) times the mean of the last min(processed_count, 30)
\* latencies, it is not negative, and it is 0 after the last frame of the
\* range
EtaIsRollingMean ==
    (entry = "upscale" /\ processed_count >= 1) =>
        LET n == IF processed_count < 30 THEN processed_count ELSE 30
            total == LatencySum(clock, processed_count - n + 1, processed_count)
        IN  /\ Len(frame_times) = processed_count
            /\ eta.den > 0
            /\ eta.num * n = (total_frames - processed_count) * total * eta.den
            /\ eta.num >= 0
            /\ processed_count = total_frames => eta.num = 0

\* under constant latency, a further processed frame lowers eta
EtaDecreases ==
    (/\ entry = "upscale" /\ clock = "steady"
     /\ processed_count >= 1
     /\ processed_count' = processed_count + 1)
        => FractionLess(eta', eta)

\* C23: in upscale_video the ETA after each frame is (total_frames -
\* processed_count) times the mean of the last min(processed_count, 30)
\* frame latencies; it is never negative; when every frame takes the same
\* positive time it strictly decreases with each processed frame, and it is
\* 0 after the last frame of the range.
C23_EtaRollingMeanDecreasing == []EtaIsRollingMean /\ [][EtaDecreases]_vars

\* a run under constant latency went past the rolling window and processed
\* the last frame of its range
C23_Witness ==
    /\ entry = "upscale" /\ clock = "steady"
    /\ processed_count > 30
    /\ processed_count = total_frames
    /\ eta.num = 0

\* after a processed pair of interpolate_video, eta is the remaining pairs
\* times the mean of the last min(processed_count, w) latencies
InterpEtaIsMeanOfLast(w) ==
    (entry = "interp" /\ processed_count >= 1) =>
        LET n == IF processed_count < w THEN processed_count ELSE w
            total == LatencySum(clock, processed_count - n + 1, processed_count)
        IN  /\ Len(frame_times) = processed_count
            /\ eta.den > 0
            /\ eta.num * n = (frames - 1 - processed_count) * total * eta.den

\* the progress callback of interpolate_video has been invoked exactly at
\* the processed pair counts c, 2c, ...
InterpCallbackEvery(c) ==
    entry = "interp" =>
        /\ Len(callbacks) = processed_count \div c
        /\ \A i \in DOMAIN callbacks : callbacks[i][1] = c * i

\* C24, as stated: interpolate_video follows the rule of upscale_video with
\* pairs for frames: ETA is the remaining pairs times the mean of the last
\* 30 pair latencies, and the callback is invoked exactly when the number of
\* processed pairs is a positive multiple of 10.
C24_SameRuleAsUpscale == InterpEtaIsMeanOfLast(30) /\ InterpCallbackEvery(10)

\* C24, amended: interpolate_video follows the same rule with its own
\* constants: ETA is the remaining pairs times the mean of the last 10 pair
\* latencies, and the callback is invoked exactly when the number of
\* processed pairs is a positive multiple of 5.
C24_WindowTenCadenceFive == InterpEtaIsMeanOfLast(10) /\ InterpCallbackEvery(5)

\* a run whose latencies vary went past the rolling window of 10 pairs and
\* called back twice
C24_Witness ==
    /\ entry = "interp" /\ clock = "burst"
    /\ processed_count > 10
    /\ Len(callbacks) = 2

-----------------------------------------------------------------------------
(* Properties of the frame-rate multiplier *)

\* an interpolated frame is among the frames of a sequence
HasInterpolated(out) == \E i \in DOMAIN out : out[i].j # 0

\* C25: a multiplier of 1 is a no-op.  interpolate_sequence with multiplier
\* 1 returns its input, the same frames in the same order and number, and
\* raises nothing; interpolate_video whose effective multiplier is below 2
\* opens no sink and writes no frame, and when it succeeds the input was
\* copied to the output path and new_fps is the original fps.
C25_MultiplierOneIsNoOp ==
    /\ (entry = "sequence" /\ fps_multiplier = 1 /\ pc # "new")
          => /\ pc = "returned"
             /\ seq_out = FrameList(seq_in)
             /\ ~HasInterpolated(seq_out)
    /\ (entry = "interp" /\ actual_multiplier < 2)
          => /\ sink = NoSink /\ written = <<>> /\ frames = 0
             /\ result.success
                   => /\ copied
                      /\ result.new_fps = metadata.fps
                      /\ result.output_path = "output_path"

\* interpolate_video returned success for the multiplier 1
C25_Witness ==
    /\ entry = "interp" /\ pc = "completed"
    /\ fps_multiplier = 1 /\ actual_multiplier = 1
    /\ result.success /\ copied

\* interpolate_sequence returned a list of several frames for multiplier 1
C25_SequenceWitness ==
    /\ entry = "sequence" /\ pc = "returned"
    /\ fps_multiplier = 1 /\ seq_in >= 2

-----------------------------------------------------------------------------
(* Properties of download_model *)

\* download_model returned from a call with a known model name
KnownModelReturned ==
    /\ entry = "download" /\ download.pc = "returned"
    /\ download.model_name \in DOMAIN MODEL_URLS

\* C26: for every known model name, download_model returns the path of an
\* existing file whenever the published weights were already there (and no
\* re-download was forced) or the download brought them, the file being
\* readable; it returns None only when the download failed or brought
\* something else; and it never returns the path of a file that failed the
\* checksum verification.
C26_ReturnsModelFile ==
    KnownModelReturned =>
        /\ (/\ (download.intact /\ ~download.force_download)
                  \/ download.fetched = "weights"
            /\ download.verified # "unreadable")
              => /\ download.ret # <<>>
                 /\ model_dir[download.ret[1]] # "absent"
        /\ download.ret = <<>>
              => \/ download.fetched \in {"failed", "garbage"}
                 \/ download.verified = "unreadable"
        /\ download.ret # <<>>
              => download.verified \notin {"failed", "unreadable"}

-----------------------------------------------------------------------------
(* Properties of the resize-only scales and of empty frame ranges *)

\* C27: for an accepted resize-only scale (0 < s < 1.5, no enhancer
\* loaded), on cuda or cpu and for a range of any number of decodable
\* frames, upscale_video invokes no operation of the enhancer: no enhance
\* call, no cache reclaim, and no failure for want of an enhancer object
\* (memory estimate or cache reclaim on self.model = None); a run that
\* reaches its end returns success with frames_processed the frames written.
C27_ResizeOnlyNeedsNoEnhancer ==
    (/\ entry = "upscale" /\ pc \in {"completed", "failed"}
     /\ ValidScale(scale_factor) /\ scale_factor < AiThreshold)
        => /\ enhancer.calls = 0 /\ reclaims = 0
           /\ result.error # "AttributeError"
           /\ pc = "completed"
                 => /\ result.success
                    /\ result.frames_processed = Len(written)

\* C27 on the cpu only: the memory estimate of line 160 is skipped, and the
\* statement still fails at the 50th frame
C27_ResizeOnlyOnCpu == device = "cpu" => C27_ResizeOnlyNeedsNoEnhancer

\* C28: when the selected frame range is empty (end_frame = start_frame,
\* as in a preview whose int(fps * duration) is 0), upscale_video on a source
\* that opens and has frames, within the resolution ceiling and with a sink
\* that opens and closes, returns success with frames_processed = 0.
C28_EmptyRangeSucceeds ==
    (/\ entry = "upscale" /\ pc \in {"completed", "failed"}
     /\ metadata.frame_count >= 1
     /\ sink # NoSink
     /\ end_frame # <<>> /\ end_frame[1] = start_frame
     /\ result.error # "OSError")
        => /\ result.success
           /\ result.frames_processed = 0

\* C29: in every successful interpolate_video run that interpolated, the
\* frame rate the output is written at is the source frame rate times the
\* integer multiplier used to insert frames: the sink's fps and new_fps
\* equal original_fps * fps_multiplier of the metrics, also when the target
\* was capped at 240 fps or given explicitly.
C29_NewFpsIsIntegerMultiple ==
    (entry = "interp" /\ pc = "completed" /\ result.success /\ ~copied)
        => /\ sink.fps = result.new_fps
           /\ result.fps_multiplier = actual_multiplier
           /\ result.new_fps = metadata.fps * result.fps_multiplier

\* C29 without an explicit target_fps: the cap alone breaks the product
C29_CappedIsIntegerMultiple ==
    target_fps_arg = <<>> => C29_NewFpsIsIntegerMultiple

-----------------------------------------------------------------------------
(* Properties of the progress reports of upscale_video *)

\* upscale_video returned success after processing at least one frame
UpscaleSucceeded ==
    /\ entry = "upscale" /\ pc = "completed" /\ result.success
    /\ processed_count >= 1

\* the reported current counts increase strictly and stay within the total
ProgressMonotone ==
    /\ \A i \in DOMAIN callbacks :
          /\ callbacks[i][1] <= callbacks[i][2]
          /\ callbacks[i][2] = total_frames
    /\ \A i, k \in DOMAIN callbacks :
          i < k => callbacks[i][1] < callbacks[k][1]

\* C30, as stated: in every successful run over N >= 1 frames the reported
\* current count increases strictly, never exceeds the total, and the last
\* invocation before the record is returned reports current = total, for
\* every N.
C30_CompletionReported ==
    UpscaleSucceeded =>
        /\ ProgressMonotone
        /\ callbacks # <<>>
        /\ callbacks[Len(callbacks)][1] = callbacks[Len(callbacks)][2]

\* C30, amended: in every successful run over N >= 1 frames the reported
\* current count increases strictly and never exceeds the total; the
\* callback is invoked at the multiples of 10 only, so there is no
\* invocation when N < 10, and otherwise the last one reports
\* current = 10 * (N div 10), which is the total only when N is a multiple
\* of 10 and the whole range was decoded.
C30_LastReportIsLastMultipleOfTen ==
    UpscaleSucceeded =>
        /\ ProgressMonotone
        /\ callbacks = <<>> <=> processed_count < 10
        /\ callbacks # <<>>
              => /\ callbacks[Len(callbacks)][1] = 10 * (processed_count \div 10)
                 /\ (callbacks[Len(callbacks)][1] = callbacks[Len(callbacks)][2])
                       <=> (processed_count % 10 = 0
                            /\ processed_count = total_frames)

\* a successful run over a number of frames that is not a multiple of 10:
\* its last report is below the total
C30_Witness ==
    /\ UpscaleSucceeded
    /\ processed_count > 10 /\ processed_count % 10 # 0
    /\ processed_count = total_frames
    /\ callbacks # <<>>
    /\ callbacks[Len(callbacks)][1] < callbacks[Len(callbacks)][2]
====
